---- MODULE Spec2Model ----
(***************************************************************************)
(* A model of the fiat-a2dp firmware: the service lifecycle controller     *)
(* (service.rs) running on the stateful broadcast signal (signal.rs), the  *)
(* service tasks that use it (commands.rs, audio.rs, can.rs), and the byte *)
(* ring buffer (ringbuf.rs).                                               *)
(*                                                                         *)
(* The executor is single-threaded and cooperative: a task runs from one   *)
(* await point to the next without interleaving, so every action below is  *)
(* one poll of one task (or one call made by the environment).             *)
(***************************************************************************)
EXTENDS Integers, Sequences, FiniteSets, TLC

VARIABLES
    sys,          \* the System record behind the stateful signal (service.rs:24-29)
    sig,          \* the unit slots of the system signal, one per receiver index
    pc,           \* where each spawned service task is suspended
    guard,        \* whether a task holds a live `Started` guard in a local
    a2dp,         \* AudioBuffers::a2dp, the current audio profile flag
    a2dp_conf,    \* process_speakers' local `a2dp_conf`
    phone,        \* AudioMux's slot of the `phone` broadcast signal
    status_out,   \* can::process' `send_status` slot (payload of the frame)
    rb,           \* RingBuf: [buf, start, end, empty]
    rb_hist,      \* history of the calls made on rb
    pureIn,       \* input of the pure function under check
    pureOut,      \* its result
    bs,           \* SpmcSignal<T>: the value slots, one per receiver index
    bs_hist,      \* history of the calls made on bs
    dt,           \* SharedStateSpmcSignal<DisplayText>: [state, signal]
    dt_hist,      \* history of the calls made on dt
    ab,           \* AudioBuffers: [incoming, outgoing, a2dp]
    ab_hist,      \* history of the calls made on ab
    gw,           \* can::process' body: the locals and slots of its sub-tasks
    gw_hist,      \* what the last step of the body sent and transmitted
    net,          \* the modem, and the tasks that borrow it (Wifi, Bt)
    sel,          \* a SelectSpawn chain: its futures, and what it yielded
    deb,          \* process_debounce_buttons: its locals and what it published
    cm,           \* commands::process_buttons: its locals and what it sent
    spk           \* process_speakers_writing on the shared AudioBuffers

lifeVars == <<sys, sig, pc, guard, a2dp, a2dp_conf, phone, status_out>>
ringVars == <<rb, rb_hist>>
pureVars == <<pureIn, pureOut>>
busVars == <<bs, bs_hist, dt, dt_hist>>
abVars == <<ab, ab_hist>>
gwVars == <<gw, gw_hist>>
netVars == <<net>>
extVars == <<sel, deb, cm, spk>>
vars == <<sys, sig, pc, guard, a2dp, a2dp_conf, phone, status_out,
          rb, rb_hist, pureIn, pureOut, bs, bs_hist, dt, dt_hist,
          ab, ab_hist, gw, gw_hist, net, sel, deb, cm, spk>>

----------------------------------------------------------------------------
(* bus.rs: the Service enumeration, in declaration order (its discriminant  *)
(* indexes the slot array).                                                 *)

ServiceOrder ==
    <<"Bt", "AudioMux", "Microphone", "Speakers", "Can",
      "RadioDisplay", "CockpitDisplay", "Commands", "Wifi">>

Services == {ServiceOrder[i] : i \in 1..Len(ServiceOrder)}

Index(s) == (CHOOSE i \in 1..Len(ServiceOrder) : ServiceOrder[i] = s) - 1

MAX_RECEIVERS == 8

SlotIndexes == 0..(MAX_RECEIVERS - 1)

(* The tasks that run on service.rs' ServiceLifecycle.  run.rs spawns       *)
(* Commands, AudioMux, Microphone and Speakers; can::process is the task    *)
(* the vehicle-bus claims are about.  bt.rs and displays.rs are written     *)
(* against the older start.rs lifecycle and never touch the System record.  *)
Spawned == {"Commands", "AudioMux", "Microphone", "Speakers", "Can"}

----------------------------------------------------------------------------
(* service.rs: System                                                       *)

ALWAYS_ON == {"Can", "CockpitDisplay", "RadioDisplay", "Commands"}

SystemNew ==
    [enabled |-> {}, always_on |-> ALWAYS_ON, started |-> {}, sys_enabled |-> TRUE]

set_service_mode(s) == [s EXCEPT !.enabled = {}]

set_update_mode(s) == [s EXCEPT !.enabled = {"Wifi"} \ ALWAYS_ON]

(* set_normal_mode without the exclusion of Wifi.                          *)
set_normal_mode_keeps_wifi(s) == [s EXCEPT !.enabled = Services \ ALWAYS_ON]

set_normal_mode(s) == [s EXCEPT !.enabled = Services \ ({"Wifi"} \cup ALWAYS_ON)]

(* get_state comparing started with enabled alone.                         *)
get_state_started_only(s) ==
    IF s.sys_enabled
    THEN IF s.started = s.enabled THEN "Started" ELSE "Starting"
    ELSE IF s.started = s.always_on THEN "Stopped" ELSE "Stopping"

get_state(s) ==
    IF s.sys_enabled
    THEN IF s.started = s.enabled \cup s.always_on THEN "Started" ELSE "Starting"
    ELSE IF s.started = s.always_on THEN "Stopped" ELSE "Stopping"

(* The predicate without the test of the enabled set.                      *)
EnabledPred_ignores_enabled(s, svc) ==
    IF s.sys_enabled THEN TRUE ELSE svc \in s.always_on

(* The closure of wait_enabled_disabled: the derived enabled predicate.     *)
EnabledPred(s, svc) ==
    IF s.sys_enabled
    THEN svc \in s.enabled \/ svc \in s.always_on
    ELSE svc \in s.always_on

----------------------------------------------------------------------------
(* signal.rs: the stateful signal.  A world is the pair of the shared       *)
(* record and the slots; the operators below are the state transformers     *)
(* that one poll composes.                                                  *)

SignalNew == [i \in SlotIndexes |-> FALSE]

Fanout(g) == [i \in DOMAIN g |-> TRUE]

(* SharedStateSender::modify: r is the closure's result, the new record     *)
(* and the flag it returned.                                                *)
(* modify that wakes the receivers whatever f returned.                     *)
Modify_always_wakes(w, r) == [sys |-> r.sys, sig |-> Fanout(w.sig)]

Modify(w, r) ==
    [sys |-> r.sys, sig |-> IF r.dirty THEN Fanout(w.sig) ELSE w.sig]

(* Receiver::recv completing: the slot is consumed.                         *)
Recv(w, svc) == [w EXCEPT !.sig[Index(svc)] = FALSE]

Signaled(g, svc) == Index(svc) \in DOMAIN g /\ g[Index(svc)]

----------------------------------------------------------------------------
(* service.rs: ServiceLifecycle                                             *)

SetStartedClosure(s, svc, started) ==
    LET was_started == svc \in s.started IN
    IF started # was_started
    THEN [sys |-> IF started
                  THEN [s EXCEPT !.started = @ \cup {svc}]
                  ELSE [s EXCEPT !.started = @ \cap {svc}],
          dirty |-> TRUE]
    ELSE [sys |-> s, dirty |-> FALSE]

set_started(w, svc, started) == Modify(w, SetStartedClosure(w.sys, svc, started))

(* started(): the guard is the caller's to keep.                            *)
started(w, svc) == set_started(w, svc, TRUE)

(* Started::drop                                                            *)
DropStarted(w, svc) == set_started(w, svc, FALSE)

(* `bus.service.started();` as a statement: the guard is a temporary and    *)
(* is dropped at the end of the statement.                                  *)
StartedDiscarded(w, svc) == DropStarted(started(w, svc), svc)

sys_start(w) ==
    Modify(w, IF ~w.sys.sys_enabled
              THEN [sys |-> [w.sys EXCEPT !.sys_enabled = TRUE], dirty |-> TRUE]
              ELSE [sys |-> w.sys, dirty |-> FALSE])

sys_stop(w) ==
    Modify(w, IF w.sys.sys_enabled
              THEN [sys |-> [w.sys EXCEPT !.sys_enabled = FALSE], dirty |-> TRUE]
              ELSE [sys |-> w.sys, dirty |-> FALSE])

sys_set_service_mode(w) == Modify(w, [sys |-> set_service_mode(w.sys), dirty |-> TRUE])

sys_set_update_mode(w) == Modify(w, [sys |-> set_update_mode(w.sys), dirty |-> TRUE])

sys_set_normal_mode(w) == Modify(w, [sys |-> set_normal_mode(w.sys), dirty |-> TRUE])

get_sys_state(w) == get_state(w.sys)

(* The comparison without `== wait_enabled`.                                *)
WaitCompletes_ignores_direction(w, svc, wait_enabled) == EnabledPred(w.sys, svc)

(* One turn of wait_enabled_disabled's loop once recv() has a value: the    *)
(* slot is consumed and the predicate is compared with what is awaited.     *)
WaitCompletes(w, svc, wait_enabled) == EnabledPred(w.sys, svc) = wait_enabled

(* The first poll of a fresh wait_disabled() right after the task itself    *)
(* has signalled: recv() returns at once if the slot is set, the predicate  *)
(* is still true, and the loop suspends in the next recv().                 *)
WaitDisabledFirstPoll(w, svc) == IF Signaled(w.sig, svc) THEN Recv(w, svc) ELSE w

----------------------------------------------------------------------------
(* The state after construction: Bus::new() (System::new(), every slot      *)
(* empty), create_audio_buffers (a2dp = true), every task spawned and       *)
(* suspended in the recv() of its first wait_enabled.                       *)

World == [sys |-> sys, sig |-> sig]

LifeInit ==
    /\ sys = SystemNew
    /\ sig = SignalNew
    /\ pc = [s \in Spawned |-> "wait_enabled"]
    /\ guard = [s \in Spawned |-> FALSE]
    /\ a2dp = TRUE
    /\ a2dp_conf = TRUE
    /\ phone = "none"
    /\ status_out = "none"

----------------------------------------------------------------------------
(* The mode setters are public on every ServiceLifecycle handle.  The only  *)
(* call in the tasks is process_usb_cutoff's sys_set_normal_mode (the       *)
(* flash/service backdoor is commented out), so the other calls are made    *)
(* by the environment holding a handle.                                     *)

SysSetServiceMode ==
    /\ sys' = sys_set_service_mode(World).sys
    /\ sig' = sys_set_service_mode(World).sig
    /\ UNCHANGED <<ringVars, pureVars, busVars, abVars, gwVars, netVars, extVars>>
    /\ UNCHANGED <<pc, guard, a2dp, a2dp_conf, phone, status_out>>

SysSetUpdateMode ==
    /\ sys' = sys_set_update_mode(World).sys
    /\ sig' = sys_set_update_mode(World).sig
    /\ UNCHANGED <<ringVars, pureVars, busVars, abVars, gwVars, netVars, extVars>>
    /\ UNCHANGED <<pc, guard, a2dp, a2dp_conf, phone, status_out>>

SysSetNormalMode ==
    /\ sys' = sys_set_normal_mode(World).sys
    /\ sig' = sys_set_normal_mode(World).sig
    /\ UNCHANGED <<ringVars, pureVars, busVars, abVars, gwVars, netVars, extVars>>
    /\ UNCHANGED <<pc, guard, a2dp, a2dp_conf, phone, status_out>>

----------------------------------------------------------------------------
(* wait_enabled_disabled, the turns that do not complete it.                *)

(* wait_enabled: woken, the predicate is false, back to recv().             *)
WaitEnabledPending(svc) ==
    /\ pc[svc] = "wait_enabled"
    /\ Signaled(sig, svc)
    /\ ~WaitCompletes(Recv(World, svc), svc, TRUE)
    /\ sig' = Recv(World, svc).sig
    /\ UNCHANGED <<ringVars, pureVars, busVars, abVars, gwVars, netVars, extVars>>
    /\ UNCHANGED <<sys, pc, guard, a2dp, a2dp_conf, phone, status_out>>

(* wait_disabled inside the body's select: woken, the predicate is still    *)
(* true, back to recv(); the sibling futures were not woken (a phone state  *)
(* in AudioMux's slot is taken by the same poll: AudioMuxPhone).            *)
WaitDisabledPending(svc) ==
    /\ pc[svc] = "running"
    /\ ~(svc = "AudioMux" /\ phone # "none")
    /\ Signaled(sig, svc)
    /\ ~WaitCompletes(Recv(World, svc), svc, FALSE)
    /\ sig' = Recv(World, svc).sig
    /\ UNCHANGED <<ringVars, pureVars, busVars, abVars, gwVars, netVars, extVars>>
    /\ UNCHANGED <<sys, pc, guard, a2dp, a2dp_conf, phone, status_out>>

(* The poll of a body's select always polls wait_disabled first.  When the  *)
(* poll is caused by another future, a signalled slot is consumed on the    *)
(* way; the case in which wait_disabled then completes is ServiceDisabled.  *)
BodyStays(svc) ==
    ~(Signaled(sig, svc) /\ WaitCompletes(Recv(World, svc), svc, FALSE))

BodyPoll(svc) == IF Signaled(sig, svc) THEN Recv(World, svc) ELSE World

----------------------------------------------------------------------------
(* commands::process.  Commands is always on.  The first poll of the body   *)
(* polls wait_disabled, then process_usb_cutoff, which sets normal mode     *)
(* and stays pending for ever.                                              *)

CommandsStart ==
    LET svc == "Commands"
        w1 == Recv(World, svc)
        w2 == started(w1, svc)
        w3 == WaitDisabledFirstPoll(w2, svc)
        w4 == sys_set_normal_mode(w3)
    IN  /\ pc[svc] = "wait_enabled"
        /\ Signaled(sig, svc)
        /\ WaitCompletes(w1, svc, TRUE)
        /\ sys' = w4.sys
        /\ sig' = w4.sig
        /\ pc' = [pc EXCEPT ![svc] = "running"]
        /\ guard' = [guard EXCEPT ![svc] = TRUE]
        /\ UNCHANGED <<ringVars, pureVars, busVars, abVars, gwVars, netVars, extVars>>
        /\ UNCHANGED <<a2dp, a2dp_conf, phone, status_out>>

(* audio::process_audio_mux                                                 *)

is_active(state) == state = "Streaming"

set_a2dp_keeps_profile(old, new) == old

(* AudioBuffers::set_a2dp, the flag (the rings are cleared with it).        *)
set_a2dp(old, new) == IF old # new THEN new ELSE old

(* The first poll of the body also polls phone.recv(): a state published    *)
(* while the task was not in its body is handled in the same poll.          *)
AudioMuxStart ==
    LET svc == "AudioMux"
        w1 == Recv(World, svc)
        w2 == started(w1, svc)
        w3 == WaitDisabledFirstPoll(w2, svc)
    IN  /\ pc[svc] = "wait_enabled"
        /\ Signaled(sig, svc)
        /\ WaitCompletes(w1, svc, TRUE)
        /\ sys' = w3.sys
        /\ sig' = w3.sig
        /\ pc' = [pc EXCEPT ![svc] = "running"]
        /\ guard' = [guard EXCEPT ![svc] = TRUE]
        /\ a2dp' = IF phone = "none" THEN a2dp ELSE set_a2dp(a2dp, ~is_active(phone))
        /\ phone' = "none"
        /\ UNCHANGED <<a2dp_conf, status_out>>
        /\ UNCHANGED <<ringVars, pureVars, busVars, abVars, gwVars, netVars, extVars>>

(* bt.rs publishes the hands-free audio state on the phone signal.  Only   *)
(* AudioMux reads its slot of that signal (Can's radio mux has its own),    *)
(* so when AudioMux is suspended in its body the send and the poll it       *)
(* wakes are taken as one step: wait_disabled is polled first, then         *)
(* phone.recv() yields the state and the profile is set.  Otherwise the     *)
(* state stays in the slot, replacing what was there.                       *)
PhoneAudio(state) ==
    LET svc == "AudioMux"
        w1 == BodyPoll(svc)
    IN  /\ IF pc[svc] = "running" /\ BodyStays(svc)
           THEN /\ sys' = w1.sys
                /\ sig' = w1.sig
                /\ a2dp' = set_a2dp(a2dp, ~is_active(state))
                /\ phone' = "none"
           ELSE /\ phone' = state
                /\ UNCHANGED <<sys, sig, a2dp>>
        /\ UNCHANGED <<pc, guard, a2dp_conf, status_out>>
        /\ UNCHANGED <<ringVars, pureVars, busVars, abVars, gwVars, netVars, extVars>>

(* A state left in the slot while the body was about to be disabled is      *)
(* handled by the next poll if the body stays.                              *)
AudioMuxPhone ==
    LET svc == "AudioMux"
        w1 == BodyPoll(svc)
    IN  /\ pc[svc] = "running"
        /\ phone # "none"
        /\ BodyStays(svc)
        /\ sys' = w1.sys
        /\ sig' = w1.sig
        /\ a2dp' = set_a2dp(a2dp, ~is_active(phone))
        /\ phone' = "none"
        /\ UNCHANGED <<ringVars, pureVars, busVars, abVars, gwVars, netVars, extVars>>
        /\ UNCHANGED <<pc, guard, a2dp_conf, status_out>>

(* audio::process_microphone.  ok: AdcContDriver::new and start succeed.    *)

MicrophoneStart(ok) ==
    LET svc == "Microphone"
        w1 == Recv(World, svc)
        w2 == started(w1, svc)
        w3 == WaitDisabledFirstPoll(w2, svc)
    IN  /\ pc[svc] = "wait_enabled"
        /\ Signaled(sig, svc)
        /\ WaitCompletes(w1, svc, TRUE)
        /\ IF ok
           THEN /\ sys' = w3.sys
                /\ sig' = w3.sig
                /\ pc' = [pc EXCEPT ![svc] = "running"]
                /\ guard' = [guard EXCEPT ![svc] = TRUE]
                /\ UNCHANGED <<ringVars, pureVars, busVars, abVars, gwVars, netVars, extVars>>
           ELSE /\ sys' = w1.sys
                /\ sig' = w1.sig
                /\ pc' = [pc EXCEPT ![svc] = "exited"]
                /\ guard' = guard
                /\ UNCHANGED <<ringVars, pureVars, busVars, abVars, gwVars, netVars, extVars>>
        /\ UNCHANGED <<a2dp, a2dp_conf, phone, status_out>>

(* process_microphone_reading returns the error of read_async: the `?`      *)
(* after the select leaves the task, dropping `_started` on the way.        *)
MicrophoneReadError ==
    LET svc == "Microphone"
        w1 == BodyPoll(svc)
        w2 == DropStarted(w1, svc)
    IN  /\ pc[svc] = "running"
        /\ BodyStays(svc)
        /\ sys' = w2.sys
        /\ sig' = w2.sig
        /\ pc' = [pc EXCEPT ![svc] = "exited"]
        /\ guard' = [guard EXCEPT ![svc] = FALSE]
        /\ UNCHANGED <<ringVars, pureVars, busVars, abVars, gwVars, netVars, extVars>>
        /\ UNCHANGED <<a2dp, a2dp_conf, phone, status_out>>

(* audio::process_speakers.  `bus.service.started();` discards the guard.   *)
(* ok: i2s_create and tx_enable succeed.                                    *)

SpeakersStart(ok) ==
    LET svc == "Speakers"
        w1 == Recv(World, svc)
        w2 == StartedDiscarded(w1, svc)
        w3 == WaitDisabledFirstPoll(w2, svc)
    IN  /\ pc[svc] = "wait_enabled"
        /\ Signaled(sig, svc)
        /\ WaitCompletes(w1, svc, TRUE)
        /\ IF ok
           THEN /\ sys' = w3.sys
                /\ sig' = w3.sig
                /\ pc' = [pc EXCEPT ![svc] = "running"]
                /\ a2dp_conf' = a2dp
                /\ UNCHANGED <<ringVars, pureVars, busVars, abVars, gwVars, netVars, extVars>>
           ELSE /\ sys' = w1.sys
                /\ sig' = w1.sig
                /\ pc' = [pc EXCEPT ![svc] = "exited"]
                /\ a2dp_conf' = a2dp_conf
                /\ UNCHANGED <<ringVars, pureVars, busVars, abVars, gwVars, netVars, extVars>>
        /\ UNCHANGED <<guard, a2dp, phone, status_out>>

(* process_speakers_writing is woken (a write completed, or the incoming    *)
(* notification fired).  io_ok: the write succeeded; ok: tx_disable, and    *)
(* the i2s_create and tx_enable of the next round, succeed.  On a profile   *)
(* change the writer returns Ok and the inner loop starts the next round,   *)
(* calling started() again.                                                 *)
SpeakersWriting(io_ok, ok) ==
    LET svc == "Speakers"
        w1 == BodyPoll(svc)
        w2 == StartedDiscarded(w1, svc)
        w3 == WaitDisabledFirstPoll(w2, svc)
    IN  /\ pc[svc] = "running"
        /\ BodyStays(svc)
        /\ IF io_ok /\ a2dp_conf = a2dp
           THEN /\ ok
                /\ sys' = w1.sys
                /\ sig' = w1.sig
                /\ UNCHANGED <<ringVars, pureVars, busVars, abVars, gwVars, netVars, extVars>>
                /\ UNCHANGED <<pc, a2dp_conf>>
           ELSE IF io_ok /\ ok
           THEN /\ sys' = w3.sys
                /\ sig' = w3.sig
                /\ a2dp_conf' = a2dp
                /\ UNCHANGED <<ringVars, pureVars, busVars, abVars, gwVars, netVars, extVars>>
                /\ UNCHANGED pc
           ELSE /\ sys' = w1.sys
                /\ sig' = w1.sig
                /\ pc' = [pc EXCEPT ![svc] = "exited"]
                /\ a2dp_conf' = TRUE
                /\ UNCHANGED <<ringVars, pureVars, busVars, abVars, gwVars, netVars, extVars>>
        /\ UNCHANGED <<guard, a2dp, phone, status_out>>

----------------------------------------------------------------------------
(* can::process.  Can is always on.  ok: create and driver.start succeed.   *)

CanStart(ok) ==
    LET svc == "Can"
        w1 == Recv(World, svc)
        w2 == StartedDiscarded(w1, svc)
        w3 == WaitDisabledFirstPoll(w2, svc)
    IN  /\ pc[svc] = "wait_enabled"
        /\ Signaled(sig, svc)
        /\ WaitCompletes(w1, svc, TRUE)
        /\ IF ok
           THEN /\ sys' = w3.sys
                /\ sig' = w3.sig
                /\ pc' = [pc EXCEPT ![svc] = "running"]
                /\ UNCHANGED <<ringVars, pureVars, busVars, abVars, gwVars, netVars, extVars>>
           ELSE /\ sys' = w1.sys
                /\ sig' = w1.sig
                /\ pc' = [pc EXCEPT ![svc] = "exited"]
                /\ UNCHANGED <<ringVars, pureVars, busVars, abVars, gwVars, netVars, extVars>>
        /\ UNCHANGED <<guard, a2dp, a2dp_conf, phone, status_out>>

BodyComputerRequests == {"WakeupRequest", "ShutDownRequest", "StatusRequest"}

(* process_recv_body_computer's match on get_sys_state()                    *)
StatusPayload(state) ==
    CASE state = "Stopped"  -> "AboutToSleep"
      [] state = "Starting" -> "PoweringOn"
      [] state = "Started"  -> "Active"
      [] state = "Stopping" -> "AboutToSleep"

(* process_recv: a BodyComputer frame is received and dispatched.           *)
CanRecv(payload) ==
    LET svc == "Can"
        w1 == BodyPoll(svc)
        w2 == CASE payload = "WakeupRequest"   -> sys_start(w1)
                [] payload = "ShutDownRequest" -> sys_stop(w1)
                [] payload = "StatusRequest"   -> w1
    IN  /\ pc[svc] = "running"
        /\ BodyStays(svc)
        /\ sys' = w2.sys
        /\ sig' = w2.sig
        /\ status_out' = IF payload = "StatusRequest"
                         THEN StatusPayload(get_sys_state(w1))
                         ELSE status_out
        /\ UNCHANGED <<ringVars, pureVars, busVars, abVars, gwVars, netVars, extVars>>
        /\ UNCHANGED <<pc, guard, a2dp, a2dp_conf, phone>>

(* A sub-task of the body fails (driver.receive or driver.transmit): the    *)
(* select yields the error, then `driver.stop()?; stopped(); res?` leave    *)
(* the task.  ok: driver.stop succeeds, so that stopped() is reached.       *)
(* service.rs defines no stopped(); start.rs' stopped() is                  *)
(* set_started(false), which is what is taken here.                         *)
CanError(ok) ==
    LET svc == "Can"
        w1 == BodyPoll(svc)
        w2 == IF ok THEN DropStarted(w1, svc) ELSE w1
    IN  /\ pc[svc] = "running"
        /\ BodyStays(svc)
        /\ sys' = w2.sys
        /\ sig' = w2.sig
        /\ pc' = [pc EXCEPT ![svc] = "exited"]
        /\ status_out' = "none"
        /\ UNCHANGED <<ringVars, pureVars, busVars, abVars, gwVars, netVars, extVars>>
        /\ UNCHANGED <<guard, a2dp, a2dp_conf, phone>>

(* process_send: the status slot is taken and the frame transmitted.        *)
CanSend ==
    LET svc == "Can"
        w1 == BodyPoll(svc)
    IN  /\ pc[svc] = "running"
        /\ BodyStays(svc)
        /\ status_out # "none"
        /\ sys' = w1.sys
        /\ sig' = w1.sig
        /\ status_out' = "none"
        /\ UNCHANGED <<ringVars, pureVars, busVars, abVars, gwVars, netVars, extVars>>
        /\ UNCHANGED <<pc, guard, a2dp, a2dp_conf, phone>>

----------------------------------------------------------------------------
(* wait_disabled completes: the select returns Ok and the body is left.     *)
(* Commands and AudioMux drop `_started` at the end of the loop body;       *)
(* Microphone does after `driver.stop()?`; Speakers holds no guard and      *)
(* runs `tx_disable()?`.  ok: that driver call succeeds.  (Can's            *)
(* predicate is true in every record, its wait_disabled never completes.)   *)

ServiceDisabled(svc, ok) ==
    LET w1 == Recv(World, svc)
        w2 == IF svc = "Speakers" THEN w1 ELSE DropStarted(w1, svc)
    IN  /\ svc # "Can"
        /\ svc \in {"Commands", "AudioMux"} => ok
        /\ pc[svc] = "running"
        /\ Signaled(sig, svc)
        /\ WaitCompletes(w1, svc, FALSE)
        /\ sys' = w2.sys
        /\ sig' = w2.sig
        /\ pc' = [pc EXCEPT ![svc] = IF ok THEN "wait_enabled" ELSE "exited"]
        /\ guard' = [guard EXCEPT ![svc] = FALSE]
        /\ a2dp_conf' = IF svc = "Speakers" THEN TRUE ELSE a2dp_conf
        /\ UNCHANGED <<ringVars, pureVars, busVars, abVars, gwVars, netVars, extVars>>
        /\ UNCHANGED <<a2dp, phone, status_out>>

----------------------------------------------------------------------------

----------------------------------------------------------------------------
(* ringbuf.rs: RingBuf<N>                                                   *)

RingCap == 3

MaxData == 4

MaxOut == 4

MaxPushed == 8

Bytes == {"a", "b"}

DataSeqs == UNION {[1..n -> Bytes] : n \in 0..MaxData}

min(a, b) == IF a < b THEN a ELSE b

(* RingBuf::new: the storage is uninitialised.                              *)
RingBufNew ==
    [buf |-> [i \in 0..(RingCap - 1) |-> "uninit"],
     start |-> 0, end |-> 0, empty |-> TRUE]

BufLen(r) == Cardinality(DOMAIN r.buf)

(* wrap without the wrap of start.                                          *)
wrap_no_start(r) ==
    [r EXCEPT !.end = IF @ = BufLen(r) THEN 0 ELSE @]

wrap(r) ==
    [r EXCEPT !.start = IF @ = BufLen(r) THEN 0 ELSE @,
              !.end = IF @ = BufLen(r) THEN 0 ELSE @]

len(r) ==
    IF r.empty THEN 0
    ELSE IF r.start < r.end THEN r.end - r.start
    ELSE BufLen(r) + r.end - r.start

(* is_full without the look at the empty flag.                              *)
is_full_ignores_empty(r) == r.start = r.end

is_full(r) == r.start = r.end /\ ~r.empty

(* is_empty told from the indexes alone.                                    *)
is_empty_by_indexes(r) == r.start = r.end

is_empty(r) == r.empty

(* push that never drops the oldest data.                                   *)
dropping_oldest_never(r, chunk) == FALSE

(* The test of push for the chunk running over the oldest data.             *)
dropping_oldest(r, chunk) ==
    ~r.empty /\ r.start >= r.end /\ r.start < r.end + chunk

(* The while loop of push, one chunk (up to the end of the storage) a turn. *)
RECURSIVE push_loop(_, _, _)
push_loop(r, data, offset) ==
    IF offset < Len(data)
    THEN LET chunk == min(BufLen(r) - r.end, Len(data) - offset)
             copied == [i \in DOMAIN r.buf |->
                          IF i >= r.end /\ i < r.end + chunk
                          THEN data[offset + (i - r.end) + 1]
                          ELSE r.buf[i]]
             start1 == IF dropping_oldest(r, chunk)
                       THEN r.end + chunk
                       ELSE r.start
             r1 == wrap([buf |-> copied, start |-> start1,
                         end |-> r.end + chunk, empty |-> r.empty])
         IN  push_loop([r1 EXCEPT !.empty = FALSE], data, offset + chunk)
    ELSE r

push(r, data) ==
    LET r1 == push_loop(r, data, 0) IN [rb |-> r1, ret |-> len(r1)]

push_byte(r, data) ==
    LET start1 == IF ~r.empty /\ r.start = r.end THEN r.end + 1 ELSE r.start
        r1 == wrap([buf |-> [r.buf EXCEPT ![r.end] = data], start |-> start1,
                    end |-> r.end + 1, empty |-> r.empty])
        r2 == [r1 EXCEPT !.empty = FALSE]
    IN  [rb |-> r2, ret |-> len(r2)]

(* The while loop of pop; out is out_buf[0..offset].                        *)
RECURSIVE pop_loop(_, _, _)
pop_loop(r, n, out) ==
    IF Len(out) < n /\ ~r.empty
    THEN LET chunk == min((IF r.start < r.end THEN r.end ELSE BufLen(r)) - r.start,
                          n - Len(out))
             bytes == [k \in 1..chunk |-> r.buf[r.start + k - 1]]
             r1 == wrap([r EXCEPT !.start = @ + chunk])
             r2 == IF r1.start = r1.end THEN [r1 EXCEPT !.empty = TRUE] ELSE r1
         IN  pop_loop(r2, n, out \o bytes)
    ELSE [rb |-> r, out |-> out, ret |-> Len(out)]

pop(r, n) == pop_loop(r, n, <<>>)

(* The history kept beside the buffer: the bytes handed to push and         *)
(* push_byte, the bytes pop returned, and the bytes an ideal queue of the   *)
(* same capacity would have had to drop; the last call and its results.     *)
Held(h) == h.pushed - h.popped - h.dropped

Overflow(h, k) ==
    IF Held(h) + k > RingCap THEN Held(h) + k - RingCap ELSE 0

(* The queue the buffer stands for: what was pushed and not popped, cut    *)
(* to the newest RingCap bytes.                                             *)
Newest(s, n) == IF Len(s) > n THEN SubSeq(s, Len(s) - n + 1, Len(s)) ELSE s

Oldest(s, n) == IF Len(s) > n THEN SubSeq(s, 1, n) ELSE s

Rest(s, n) == IF Len(s) > n THEN SubSeq(s, n + 1, Len(s)) ELSE <<>>

RingInit ==
    /\ rb = RingBufNew
    /\ rb_hist = [pushed |-> 0, popped |-> 0, dropped |-> 0,
                  op |-> "new", arg |-> 0, ret |-> 0, out |-> <<>>,
                  over |-> FALSE, ideal |-> <<>>]

Push(data) ==
    /\ rb_hist.pushed + Len(data) <= MaxPushed
    /\ rb' = push(rb, data).rb
    /\ rb_hist' = [pushed |-> rb_hist.pushed + Len(data),
                   popped |-> rb_hist.popped,
                   dropped |-> rb_hist.dropped + Overflow(rb_hist, Len(data)),
                   op |-> "push", arg |-> Len(data),
                   ret |-> push(rb, data).ret, out |-> <<>>,
                   over |-> Overflow(rb_hist, Len(data)) > 0,
                   ideal |-> Newest(rb_hist.ideal \o data, RingCap)]
    /\ UNCHANGED <<lifeVars, pureVars, busVars, abVars, gwVars, netVars, extVars>>

PushByte(data) ==
    /\ rb_hist.pushed + 1 <= MaxPushed
    /\ rb' = push_byte(rb, data).rb
    /\ rb_hist' = [pushed |-> rb_hist.pushed + 1,
                   popped |-> rb_hist.popped,
                   dropped |-> rb_hist.dropped + Overflow(rb_hist, 1),
                   op |-> "push_byte", arg |-> 1,
                   ret |-> push_byte(rb, data).ret, out |-> <<>>,
                   over |-> Overflow(rb_hist, 1) > 0,
                   ideal |-> Newest(rb_hist.ideal \o <<data>>, RingCap)]
    /\ UNCHANGED <<lifeVars, pureVars, busVars, abVars, gwVars, netVars, extVars>>

Pop(n) ==
    /\ rb' = pop(rb, n).rb
    /\ rb_hist' = [pushed |-> rb_hist.pushed,
                   popped |-> rb_hist.popped + pop(rb, n).ret,
                   dropped |-> rb_hist.dropped,
                   op |-> "pop", arg |-> n,
                   ret |-> pop(rb, n).ret, out |-> pop(rb, n).out,
                   over |-> FALSE,
                   ideal |-> Rest(rb_hist.ideal, n)]
    /\ UNCHANGED <<lifeVars, pureVars, busVars, abVars, gwVars, netVars, extVars>>

RingNext ==
    \/ \E data \in DataSeqs : Push(data)
    \/ \E data \in Bytes : PushByte(data)
    \/ \E n \in 0..MaxOut : Pop(n)

----------------------------------------------------------------------------
(* The plain broadcast signal (signal.rs:12-65): an array of MAX_RECEIVERS  *)
(* single-value slots.  A slot is "none" or holds one value.                *)

Values == {"a", "b"}

SpmcSignalNew == [i \in SlotIndexes |-> "none"]

(* signal that leaves a value already held in place.                        *)
signal_keeps_pending(slot, value) == IF slot = "none" THEN value ELSE slot

(* Signal::signal: the slot holds the new value, whatever it held.          *)
signal(slot, value) == value

send(g, value) == [i \in DOMAIN g |-> signal(g[i], value)]

(* recv that empties every slot.                                            *)
recv_clears_all(g, svc) ==
    [slots |-> [i \in DOMAIN g |-> "none"], ret |-> g[Index(svc)]]

(* Receiver::recv once the slot of the service holds a value: the value is  *)
(* returned and the slot is empty again.                                    *)
recv(g, svc) ==
    [slots |-> [g EXCEPT ![Index(svc)] = "none"], ret |-> g[Index(svc)]]

(* recv().await completes only when the slot of the service holds a value;  *)
(* receiver(service) indexes the array with the service's number.           *)
RecvReady(g, svc) == Index(svc) \in DOMAIN g /\ g[Index(svc)] # "none"

(* The history kept beside the slots: the last call, the last two values    *)
(* sent, and for each slot how many sends (2 standing for two or more) it   *)
(* has seen since it was last received from.                                *)
BroadcastInit ==
    /\ bs = SpmcSignalNew
    /\ bs_hist = [op |-> "new", svc |-> "none", ret |-> "none",
                  last |-> "none", prev |-> "none", merged |-> FALSE,
                  unread |-> [i \in SlotIndexes |-> 0]]

BsSend(value) ==
    /\ bs' = send(bs, value)
    /\ bs_hist' = [op |-> "send", svc |-> "none", ret |-> "none",
                   last |-> value, prev |-> bs_hist.last, merged |-> FALSE,
                   unread |-> [i \in SlotIndexes |->
                                 min(bs_hist.unread[i] + 1, 2)]]
    /\ UNCHANGED <<lifeVars, ringVars, pureVars, dt, dt_hist, abVars, gwVars, netVars, extVars>>

BsRecv(svc) ==
    /\ RecvReady(bs, svc)
    /\ bs' = recv(bs, svc).slots
    /\ bs_hist' = [bs_hist EXCEPT !.op = "recv", !.svc = svc,
                                  !.ret = recv(bs, svc).ret,
                                  !.merged = bs_hist.unread[Index(svc)] = 2,
                                  !.unread[Index(svc)] = 0]
    /\ UNCHANGED <<lifeVars, ringVars, pureVars, dt, dt_hist, abVars, gwVars, netVars, extVars>>

BroadcastNext ==
    \/ \E value \in Values : BsSend(value)
    \/ \E svc \in Services : BsRecv(svc)

----------------------------------------------------------------------------
(* A stateful signal over a versioned record: Bus::cockpit_display, a       *)
(* SharedStateSpmcSignal<DisplayText> (signal.rs:67-129, bus.rs:182-232).   *)
(* The text is kept as what it was rendered from.  version is a u32; the    *)
(* calls are counted up to MaxMods, far below the 2^32 at which `+= 1`      *)
(* would overflow.                                                          *)

MaxMods == 3

Phones == {"phone1"}

Tracks == {"track1", "track2"}

DisplayTextNew == [version |-> 0, menu |-> FALSE, text |-> <<>>]

reset(d) ==
    [version |-> d.version + 1, menu |-> FALSE, text |-> <<>>]

update_phone_info(d, call) ==
    [d EXCEPT !.version = @ + 1, !.text = <<"phone", call>>]

(* update_track_info without `self.version += 1`.                           *)
update_track_info_keeps_version(d, track) ==
    [d EXCEPT !.text = <<"track", track>>]

update_track_info(d, track) ==
    [d EXCEPT !.version = @ + 1, !.text = <<"track", track>>]

(* What a closure handed to modify leaves and returns: it applies one of    *)
(* the record's mutators and returns true, or finds nothing to change,      *)
(* leaves the record and returns false (the shape of the closures of        *)
(* service.rs:116-133).                                                     *)
DisplayClosures(d) ==
    {[state |-> reset(d), ret |-> TRUE], [state |-> d, ret |-> FALSE]}
    \cup {[state |-> update_phone_info(d, p), ret |-> TRUE] : p \in Phones}
    \cup {[state |-> update_track_info(d, k), ret |-> TRUE] : k \in Tracks}

SharedStateSpmcSignalNew(state) == [state |-> state, signal |-> SignalNew]

(* SharedStateSender::modify, r being what f left and returned.             *)
modify(s, r) ==
    [state |-> r.state,
     signal |-> IF r.ret THEN [i \in DOMAIN s.signal |-> TRUE] ELSE s.signal]

(* SharedStateReceiver::state with a closure that copies the record.        *)
StateSnapshot(s) == s.state

(* The history kept beside the signal: the calls of modify whose closure    *)
(* returned true, the record as the last modify left it, the last call and  *)
(* what the last state() returned.                                          *)
DisplayInit ==
    /\ dt = SharedStateSpmcSignalNew(DisplayTextNew)
    /\ dt_hist = [accepted |-> 0, left |-> DisplayTextNew, op |-> "new",
                  ret |-> FALSE, seen |-> DisplayTextNew]

DtModify(r) ==
    /\ dt_hist.accepted < MaxMods
    /\ dt' = modify(dt, r)
    /\ dt_hist' = [dt_hist EXCEPT !.accepted = IF r.ret THEN @ + 1 ELSE @,
                                  !.left = r.state,
                                  !.op = "modify",
                                  !.ret = r.ret]
    /\ UNCHANGED <<lifeVars, ringVars, pureVars, bs, bs_hist, abVars, gwVars, netVars, extVars>>

(* A consumer: recv(), then state() (commands.rs:240-257).                  *)
DtConsume(svc) ==
    /\ Index(svc) \in DOMAIN dt.signal
    /\ dt.signal[Index(svc)]
    /\ dt' = [dt EXCEPT !.signal[Index(svc)] = FALSE]
    /\ dt_hist' = [dt_hist EXCEPT !.op = "state", !.seen = StateSnapshot(dt)]
    /\ UNCHANGED <<lifeVars, ringVars, pureVars, bs, bs_hist, abVars, gwVars, netVars, extVars>>

(* state() with no recv before it: process_display reads the record when   *)
(* its timer fires as well (can.rs:730-732).                                *)
DtState ==
    /\ dt_hist.op # "peek"
    /\ dt_hist' = [dt_hist EXCEPT !.op = "peek", !.seen = StateSnapshot(dt)]
    /\ UNCHANGED <<lifeVars, ringVars, pureVars, bs, bs_hist, dt, abVars, gwVars, netVars, extVars>>

DisplayNext ==
    \/ \E r \in DisplayClosures(dt.state) : DtModify(r)
    \/ \E svc \in Services : DtConsume(svc)
    \/ DtState

BusInit == BroadcastInit /\ DisplayInit

----------------------------------------------------------------------------
(* AudioBuffers (audio.rs:32-133): two ring buffers and the profile flag    *)
(* a2dp (TRUE: music, FALSE: voice).  Every call is made inside the lock of *)
(* SharedAudioBuffers and is one step.  A byte is kept as the profile that  *)
(* was current when it was pushed.                                          *)

AudioCap == 3

MaxAudioData == 2

MaxAudioOut == 2

MaxSamples == 1

ProfileByte(tag) == IF tag THEN "music" ELSE "voice"

(* RingBuf::new(buffer) over storage the caller has not written.            *)
RingBufOn(n) ==
    [buf |-> [i \in 0..(n - 1) |-> "uninit"],
     start |-> 0, end |-> 0, empty |-> TRUE]

(* clear that leaves the indexes where they are.                            *)
clear_keeps_indexes(r) == [r EXCEPT !.empty = r.start = r.end]

clear(r) == [r EXCEPT !.start = 0, !.end = 0, !.empty = TRUE]

AudioBuffersNew(tag) ==
    [ringbuf_incoming |-> RingBufOn(AudioCap),
     ringbuf_outgoing |-> RingBufOn(AudioCap),
     a2dp |-> tag]

is_a2dp(b) == b.a2dp

(* set_a2dp that changes the tag and leaves the rings alone.                *)
AudioBuffers_set_a2dp_keeps_rings(b, tag) == [b EXCEPT !.a2dp = tag]

AudioBuffers_set_a2dp(b, tag) ==
    IF b.a2dp # tag
    THEN [ringbuf_incoming |-> clear(b.ringbuf_incoming),
          ringbuf_outgoing |-> clear(b.ringbuf_outgoing),
          a2dp |-> tag]
    ELSE b

(* The watermark test with > in place of >=.                                *)
is_incoming_above_watermark_strict(b, tag) ==
    /\ b.a2dp = tag
    /\ len(b.ringbuf_incoming) >
           (IF tag
            THEN (BufLen(b.ringbuf_incoming) \div 3) * 2
            ELSE (BufLen(b.ringbuf_incoming) \div 12) * 2)

(* The watermark test without the comparison of the tag.                    *)
is_incoming_above_watermark_any_tag(b, tag) ==
    len(b.ringbuf_incoming) >=
        (IF tag
         THEN (BufLen(b.ringbuf_incoming) \div 3) * 2
         ELSE (BufLen(b.ringbuf_incoming) \div 12) * 2)

is_incoming_above_watermark(b, tag) ==
    /\ b.a2dp = tag
    /\ len(b.ringbuf_incoming) >=
           (IF tag
            THEN (BufLen(b.ringbuf_incoming) \div 3) * 2
            ELSE (BufLen(b.ringbuf_incoming) \div 12) * 2)

(* The outgoing test without the comparison of the tag.                     *)
is_outgoing_above_watermark_any_tag(b, tag) ==
    /\ ~tag
    /\ len(b.ringbuf_outgoing) >= (BufLen(b.ringbuf_outgoing) \div 3) * 2

is_outgoing_above_watermark(b, tag) ==
    /\ b.a2dp = tag
    /\ ~tag
    /\ len(b.ringbuf_outgoing) >= (BufLen(b.ringbuf_outgoing) \div 3) * 2

(* push_incoming; incoming_notif: AUDIO_BUFFERS_INCOMING_NOTIF was          *)
(* signalled, outgoing_notif: the caller's closure was invoked.             *)
push_incoming(b, data, tag) ==
    IF b.a2dp = tag /\ Len(data) # 0
    THEN LET b1 == [b EXCEPT !.ringbuf_incoming = push(@, data).rb]
         IN  [ab |-> b1,
              ret |-> push(b.ringbuf_incoming, data).ret,
              incoming_notif |-> is_incoming_above_watermark(b1, tag),
              outgoing_notif |-> is_outgoing_above_watermark(b1, tag)]
    ELSE [ab |-> b, ret |-> 0,
          incoming_notif |-> FALSE, outgoing_notif |-> FALSE]

(* pop_incoming without the watermark gate.                                 *)
pop_incoming_ungated(b, n, tag) ==
    [ab |-> [b EXCEPT !.ringbuf_incoming = pop(@, n).rb],
     out |-> pop(b.ringbuf_incoming, n).out,
     ret |-> pop(b.ringbuf_incoming, n).ret]

pop_incoming(b, n, tag) ==
    IF is_incoming_above_watermark(b, tag)
    THEN [ab |-> [b EXCEPT !.ringbuf_incoming = pop(@, n).rb],
          out |-> pop(b.ringbuf_incoming, n).out,
          ret |-> pop(b.ringbuf_incoming, n).ret]
    ELSE [ab |-> b, out |-> <<>>, ret |-> 0]

push_outgoing(b, data, tag) ==
    IF b.a2dp = tag
    THEN [ab |-> [b EXCEPT !.ringbuf_outgoing = push(@, data).rb],
          ret |-> push(b.ringbuf_outgoing, data).ret]
    ELSE [ab |-> b, ret |-> 0]

pop_outgoing(b, n, tag) ==
    IF is_outgoing_above_watermark(b, tag)
    THEN [ab |-> [b EXCEPT !.ringbuf_outgoing = pop(@, n).rb],
          out |-> pop(b.ringbuf_outgoing, n).out,
          ret |-> pop(b.ringbuf_outgoing, n).ret]
    ELSE [ab |-> b, out |-> <<>>, ret |-> 0]

(* The for loop of process_microphone_reading: four push_byte per pair of   *)
(* measurements.                                                            *)
RECURSIVE push_samples(_, _, _)
push_samples(r, pairs, byte) ==
    IF pairs = 0 THEN r
    ELSE LET r1 == push_byte(r, byte).rb
             r2 == push_byte(r1, byte).rb
             r3 == push_byte(r2, byte).rb
             r4 == push_byte(r3, byte).rb
         IN  push_samples(r4, pairs - 1, byte)

(* The locked block of process_microphone_reading (the live branch).        *)
microphone_reading(b, pairs) ==
    IF ~is_a2dp(b)
    THEN [ab |-> [b EXCEPT !.ringbuf_outgoing =
                               push_samples(@, pairs, ProfileByte(b.a2dp))],
          outgoing_notif |-> TRUE]
    ELSE [ab |-> b, outgoing_notif |-> FALSE]

(* The history kept beside the buffers: whether the last call carried a    *)
(* tag other than the profile, what it returned, and the notifications it   *)
(* made.                                                                    *)
BuffersInit ==
    /\ ab = AudioBuffersNew(TRUE)
    /\ ab_hist = [mismatch |-> FALSE, ret |-> 0, out |-> <<>>,
                  incoming_notif |-> FALSE, outgoing_notif |-> FALSE]

PushIncoming(n, tag) ==
    LET data == [i \in 1..n |-> ProfileByte(ab.a2dp)]
        res == push_incoming(ab, data, tag)
    IN  /\ ab' = res.ab
        /\ ab_hist' = [mismatch |-> tag # ab.a2dp, ret |-> res.ret,
                       out |-> <<>>,
                       incoming_notif |-> res.incoming_notif,
                       outgoing_notif |-> res.outgoing_notif]
        /\ UNCHANGED <<lifeVars, ringVars, pureVars, busVars, gwVars, netVars, extVars>>

PopIncoming(n, tag) ==
    LET res == pop_incoming(ab, n, tag)
    IN  /\ ab' = res.ab
        /\ ab_hist' = [mismatch |-> tag # ab.a2dp, ret |-> res.ret,
                       out |-> res.out,
                       incoming_notif |-> FALSE, outgoing_notif |-> FALSE]
        /\ UNCHANGED <<lifeVars, ringVars, pureVars, busVars, gwVars, netVars, extVars>>

PushOutgoing(n, tag) ==
    LET data == [i \in 1..n |-> ProfileByte(ab.a2dp)]
        res == push_outgoing(ab, data, tag)
    IN  /\ ab' = res.ab
        /\ ab_hist' = [mismatch |-> tag # ab.a2dp, ret |-> res.ret,
                       out |-> <<>>,
                       incoming_notif |-> FALSE, outgoing_notif |-> FALSE]
        /\ UNCHANGED <<lifeVars, ringVars, pureVars, busVars, gwVars, netVars, extVars>>

PopOutgoing(n, tag) ==
    LET res == pop_outgoing(ab, n, tag)
    IN  /\ ab' = res.ab
        /\ ab_hist' = [mismatch |-> tag # ab.a2dp, ret |-> res.ret,
                       out |-> res.out,
                       incoming_notif |-> FALSE, outgoing_notif |-> FALSE]
        /\ UNCHANGED <<lifeVars, ringVars, pureVars, busVars, gwVars, netVars, extVars>>

MicrophoneReading(pairs) ==
    LET res == microphone_reading(ab, pairs)
    IN  /\ ab' = res.ab
        /\ ab_hist' = [mismatch |-> FALSE, ret |-> 0, out |-> <<>>,
                       incoming_notif |-> FALSE,
                       outgoing_notif |-> res.outgoing_notif]
        /\ UNCHANGED <<lifeVars, ringVars, pureVars, busVars, gwVars, netVars, extVars>>

SetA2dp(p) ==
    /\ ab' = AudioBuffers_set_a2dp(ab, p)
    /\ ab_hist' = [mismatch |-> FALSE, ret |-> 0, out |-> <<>>,
                   incoming_notif |-> FALSE, outgoing_notif |-> FALSE]
    /\ UNCHANGED <<lifeVars, ringVars, pureVars, busVars, gwVars, netVars, extVars>>

BuffersNext ==
    \/ \E n \in 0..MaxAudioData : \E tag \in BOOLEAN : PushIncoming(n, tag)
    \/ \E n \in 0..MaxAudioOut : \E tag \in BOOLEAN : PopIncoming(n, tag)
    \/ \E n \in 0..MaxAudioData : \E tag \in BOOLEAN : PushOutgoing(n, tag)
    \/ \E n \in 0..MaxAudioOut : \E tag \in BOOLEAN : PopOutgoing(n, tag)
    \/ \E pairs \in 1..MaxSamples : MicrophoneReading(pairs)
    \/ \E p \in BOOLEAN : SetA2dp(p)

----------------------------------------------------------------------------
(* can::message (can.rs:39-595): the frame codec.  Bytes and identifiers    *)
(* are numbers, payloads and texts are sequences (of bytes, of one-character *)
(* strings); the shifts, masks and ors are computed on numbers.             *)

RECURSIVE Pow2(_)
Pow2(n) == IF n = 0 THEN 1 ELSE 2 * Pow2(n - 1)

Shl(x, n) == x * Pow2(n)

Shr(x, n) == x \div Pow2(n)

RECURSIVE BitOr(_, _)
BitOr(x, y) ==
    IF x = 0 THEN y
    ELSE IF y = 0 THEN x
    ELSE 2 * BitOr(x \div 2, y \div 2) + (IF x % 2 = 1 \/ y % 2 = 1 THEN 1 ELSE 0)

RECURSIVE BitAnd(_, _)
BitAnd(x, y) ==
    IF x = 0 \/ y = 0 THEN 0
    ELSE 2 * BitAnd(x \div 2, y \div 2) + (IF x % 2 = 1 /\ y % 2 = 1 THEN 1 ELSE 0)

AsU8(x) == x % 256

AsU16(x) == x % 65536

UNIT_BODY_COMPUTER == 16384

UNIT_INSTRUMENT_PANEL == 16387

UNIT_RADIO == 16389

UNIT_PARKING_SENSORS == 16408

UNIT_BT == 16417

TOPIC_UNITS_STATUS == 3593

TOPIC_PROXI == 7697

TOPIC_STEERING_WHEEL == 1589

TOPIC_DATETIME == 3105

TOPIC_DISPLAY == 2617

TOPIC_BT == 1585

TOPIC_RADIO_STATION == 2585

TOPIC_RADIO_SOURCE == 2577

CHAR_MAP ==
    <<"0", "1", "2", "3", "4", "5", "6", "7", "8", "9", ".",
      "A", "B", "C", "D", "E", "F", "G", "H", "I", "J", "K", "L", "M",
      "N", "O", "P", "Q", "R", "S", "T", "U", "V", "W", "X", "Y", "Z",
      "%", "%", " ", "%", "i", "j", "%", "%", "%", "%", "%", "%", "_",
      "%", "%", "?", "@", "!", "+", "-", ":", "/", "#", "*", "%", ";">>

(* heapless::String<12>::push: a character beyond the capacity is refused.  *)
DisplayStringCap == 12

string_push(s, ch) == IF Len(s) < DisplayStringCap THEN Append(s, ch) ELSE s

(* CHAR_MAP.chars().position(|chm| chm == ch), counted from 0; -1: None.    *)
position(ch) ==
    IF \E i \in 1..Len(CHAR_MAP) : CHAR_MAP[i] = ch
    THEN (CHOOSE i \in 1..Len(CHAR_MAP) :
              /\ CHAR_MAP[i] = ch
              /\ \A j \in 1..(i - 1) : CHAR_MAP[j] # ch) - 1
    ELSE -1

(* A payload is read and written with indexes counted from 0.               *)
At(payload, i) == payload[i + 1]

Put(payload, i, v) == [payload EXCEPT ![i + 1] = v]

(* The while loop of decode_text.                                           *)
RECURSIVE decode_text_loop(_, _, _)
decode_text_loop(payload, offset, string) ==
    IF offset < Shl(Len(payload), 3)
    THEN LET char_start == Shr(offset, 3)
             char_end == Shr(offset + 6, 3)
         IN  IF char_end >= Len(payload) THEN string
             ELSE LET index_data ==
                          IF char_start < char_end
                          THEN At(payload, char_start) * 256 + At(payload, char_end)
                          ELSE At(payload, char_start)
                      shift == 8 - ((offset + 6) % 8)
                      index == BitAnd(Shr(index_data, shift), 63)
                  IN  IF index = 0 THEN string
                      ELSE decode_text_loop(payload, offset + 6,
                                            string_push(string, CHAR_MAP[index]))
    ELSE string

decode_text(payload) == decode_text_loop(payload, 0, <<>>)

decode_display_text(payload) == decode_text(SubSeq(payload, 3, Len(payload)))

(* The for loop of encode_text over the characters of the text.             *)
RECURSIVE encode_text_loop(_, _, _, _)
encode_text_loop(text, k, payload, offset) ==
    IF k > Len(text) THEN payload
    ELSE LET found == position(text[k])
             index == (IF found # -1 THEN found ELSE position(" ")) + 1
             char_start == Shr(offset, 3)
             char_end == Shr(offset + 6, 3)
         IN  IF char_end >= Len(payload) THEN payload
             ELSE LET shift == 8 - ((offset + 6) % 8)
                      index_payload == Shl(index, shift)
                      payload1 ==
                          IF char_start < char_end
                          THEN LET h == AsU16(index_payload) \div 256
                                   l == AsU16(index_payload) % 256
                                   p1 == Put(payload, char_start,
                                             BitOr(At(payload, char_start), h))
                               IN  Put(p1, char_end, BitOr(At(p1, char_end), l))
                          ELSE Put(payload, char_start,
                                   BitOr(At(payload, char_start),
                                         AsU8(index_payload)))
                  IN  encode_text_loop(text, k + 1, payload1, offset + 6)

(* `for ch in payload.iter_mut() { *ch = 0; }`                              *)
RECURSIVE zero_fill(_)
zero_fill(n) == IF n = 0 THEN <<>> ELSE Append(zero_fill(n - 1), 0)

encode_text(text, payload) ==
    encode_text_loop(text, 1, zero_fill(Len(payload)), 0)

encode_display_text(text) ==
    <<0, 0>> \o encode_text(text, <<0, 0, 0, 0, 0, 0>>)

(* The conversions between enumerations and numbers or payloads.  A value  *)
(* of an enumeration is a record [t |-> variant, ...].                      *)

Publisher_from_u16(id) ==
    CASE id = UNIT_BODY_COMPUTER    -> [t |-> "BodyComputer"]
      [] id = UNIT_INSTRUMENT_PANEL -> [t |-> "InstrumentPanel"]
      [] id = UNIT_RADIO            -> [t |-> "Radio"]
      [] id = UNIT_PARKING_SENSORS  -> [t |-> "ParkingSensors"]
      [] id = UNIT_BT               -> [t |-> "Bt"]
      [] OTHER                      -> [t |-> "Unknown", id |-> id]

u16_from_Publisher(value) ==
    CASE value.t = "BodyComputer"    -> UNIT_BODY_COMPUTER
      [] value.t = "InstrumentPanel" -> UNIT_INSTRUMENT_PANEL
      [] value.t = "Radio"           -> UNIT_RADIO
      [] value.t = "ParkingSensors"  -> UNIT_PARKING_SENSORS
      [] value.t = "Bt"              -> UNIT_BT
      [] value.t = "Unknown"         -> value.id

BodyComputer_from(value) ==
    CASE value = <<0, 28, 0, 0, 0, 1>>    -> [t |-> "WakeupRequest"]
      [] value = <<0, 30, 0, 0, 0, 1>>    -> [t |-> "StatusRequest"]
      [] value = <<0, 26, 4, 0, 16, 107>> -> [t |-> "ShutDownRequest"]
      [] value = <<0, 28>>                -> [t |-> "PoweringOn"]
      [] value = <<0, 30>>                -> [t |-> "Active"]
      [] value = <<0, 26>>                -> [t |-> "AboutToSleep"]
      [] OTHER                            -> [t |-> "Unknown", bytes |-> value]

FramePayload_from_BodyComputer(value) ==
    CASE value.t = "WakeupRequest"   -> <<0, 28, 0, 0, 0, 1>>
      [] value.t = "StatusRequest"   -> <<0, 30, 0, 0, 0, 1>>
      [] value.t = "ShutDownRequest" -> <<0, 26, 4, 0, 16, 107>>
      [] value.t = "PoweringOn"      -> <<0, 28>>
      [] value.t = "Active"          -> <<0, 30>>
      [] value.t = "AboutToSleep"    -> <<0, 26>>
      [] value.t = "Unknown"         -> value.bytes

Proxi_from(value) ==
    CASE value = <<>>    -> [t |-> "Request"]
      [] Len(value) = 6  -> [t |-> "Response", bytes |-> value]
      [] OTHER           -> [t |-> "Unknown", bytes |-> value]

FramePayload_from_Proxi(value) ==
    CASE value.t = "Request"  -> <<>>
      [] value.t = "Response" -> value.bytes
      [] value.t = "Unknown"  -> value.bytes

(* SteeringWheelButton: the bit of each button in the u16 representation.   *)
SteeringWheelButtonBit ==
    [Windows |-> 7, Menu |-> 8, Src |-> 10, Down |-> 11, Up |-> 12,
     Mute |-> 13, VolumeDown |-> 14, VolumeUp |-> 15]

SteeringWheelButtons == DOMAIN SteeringWheelButtonBit

RECURSIVE SumBits(_)
SumBits(bits) ==
    IF bits = {} THEN 0
    ELSE LET b == CHOOSE x \in bits : TRUE
         IN  Pow2(b) + SumBits(bits \ {b})

(* EnumSet::as_repr                                                         *)
as_repr(buttons) == SumBits({SteeringWheelButtonBit[b] : b \in buttons})

(* EnumSet::from_repr_truncated: the bits of no button are ignored.         *)
from_repr_truncated(repr) ==
    {b \in SteeringWheelButtons :
        Shr(repr, SteeringWheelButtonBit[b]) % 2 = 1}

SteeringWheel_from(value) ==
    IF Len(value) = 2
    THEN [t |-> "Buttons",
          buttons |-> from_repr_truncated(value[1] * 256 + value[2])]
    ELSE [t |-> "Unknown", bytes |-> value]

FramePayload_from_SteeringWheel(value) ==
    CASE value.t = "Buttons" ->
             <<as_repr(value.buttons) \div 256, as_repr(value.buttons) % 256>>
      [] value.t = "Unknown" -> value.bytes

Bt_from(value) ==
    CASE value = <<0, 0, 0, 0, 0, 0, 0, 128>> -> [t |-> "Mute"]
      [] value = <<0, 0, 0, 0, 0, 0, 0, 129>> -> [t |-> "Phone"]
      [] value = <<0, 0, 0, 0, 0, 0, 0, 130>> -> [t |-> "Voice"]
      [] value = <<0, 0, 0, 0, 0, 0, 0, 131>> -> [t |-> "Navigation"]
      [] value = <<0, 0, 0, 0, 0, 0, 0, 132>> -> [t |-> "Media"]
      [] OTHER                                -> [t |-> "Unknown", bytes |-> value]

FramePayload_from_Bt(value) ==
    CASE value.t = "Mute"       -> <<0, 0, 0, 0, 0, 0, 0, 128>>
      [] value.t = "Phone"      -> <<0, 0, 0, 0, 0, 0, 0, 129>>
      [] value.t = "Voice"      -> <<0, 0, 0, 0, 0, 0, 0, 130>>
      [] value.t = "Navigation" -> <<0, 0, 0, 0, 0, 0, 0, 131>>
      [] value.t = "Media"      -> <<0, 0, 0, 0, 0, 0, 0, 132>>
      [] value.t = "Unknown"    -> value.bytes

(* `value if value.len() == 6 => panic!()`                                  *)
DateTime_from(value) ==
    IF Len(value) = 6 THEN [t |-> "panic"]
    ELSE [t |-> "Unknown", bytes |-> value]

FramePayload_from_DateTime(value) ==
    CASE value.t = "Current" -> <<>>
      [] value.t = "Unknown" -> value.bytes

RadioStation_from(value) == [t |-> "Station", text |-> decode_text(value)]

FramePayload_from_RadioStation(value) ==
    CASE value.t = "Station" -> encode_text(value.text, <<0, 0, 0, 0, 0, 0, 0, 0>>)
      [] value.t = "Unknown" -> value.bytes

Display_from(value) ==
    IF Len(value) = 8
    THEN [t |-> "Text",
          text |-> decode_display_text(value),
          chunk |-> BitAnd(At(value, 0), 15),
          total_chunks |-> Shr(At(value, 0), 4) + 1,
          for_radio |-> Shr(At(value, 1), 4) = 2,
          menu |-> BitAnd(At(value, 1), 15) = 6]
    ELSE [t |-> "Unknown", bytes |-> value]

FramePayload_from_Display(value) ==
    CASE value.t = "Text" ->
             LET payload == encode_display_text(value.text)
                 p0 == Put(payload, 0,
                           AsU8(BitOr(Shl(value.total_chunks - 1, 4), value.chunk)))
             IN  Put(p0, 1,
                     AsU8(BitOr(Shl(IF value.for_radio THEN 2 ELSE 1, 4),
                                IF ~value.for_radio /\ value.menu THEN 6 ELSE 10)))
      [] value.t = "Unknown" -> value.bytes

RadioSource_from(value) ==
    CASE value = <<227, 0, 0, 0, 2, 0>> -> [t |-> "BtPlaying"]
      [] value = <<227, 0, 0, 0, 0, 0>> -> [t |-> "BtMuted"]
      [] Len(value) = 6 /\ value # <<227, 0, 0, 0, 2, 0>>
                        /\ value # <<227, 0, 0, 0, 0, 0>>
                        /\ At(value, 4) = 0 /\ At(value, 5) = 0 ->
             [t |-> "Fm", freq |-> At(value, 2) * 256 + At(value, 3)]
      [] OTHER -> [t |-> "Unknown", bytes |-> value]

FramePayload_from_RadioSource(value) ==
    CASE value.t = "BtPlaying" -> <<227, 0, 0, 0, 2, 0>>
      [] value.t = "BtMuted"   -> <<227, 0, 0, 0, 0, 0>>
      [] value.t = "Fm"        -> <<value.freq \div 256, value.freq % 256, 0, 0>>
      [] value.t = "Unknown"   -> value.bytes

Topic_from(topic, payload) ==
    CASE topic = TOPIC_UNITS_STATUS   -> [t |-> "BodyComputer", v |-> BodyComputer_from(payload)]
      [] topic = TOPIC_PROXI          -> [t |-> "Proxi", v |-> Proxi_from(payload)]
      [] topic = TOPIC_STEERING_WHEEL -> [t |-> "SteeringWheel", v |-> SteeringWheel_from(payload)]
      [] topic = TOPIC_DATETIME       -> [t |-> "DateTime", v |-> DateTime_from(payload)]
      [] topic = TOPIC_BT             -> [t |-> "Bt", v |-> Bt_from(payload)]
      [] topic = TOPIC_DISPLAY        -> [t |-> "Display", v |-> Display_from(payload)]
      [] topic = TOPIC_RADIO_STATION  -> [t |-> "RadioStation", v |-> RadioStation_from(payload)]
      [] topic = TOPIC_RADIO_SOURCE   -> [t |-> "RadioSource", v |-> RadioSource_from(payload)]
      [] OTHER -> [t |-> "Unknown", topic |-> topic, payload |-> payload]

Topic_into(value) ==
    CASE value.t = "BodyComputer"  -> <<TOPIC_UNITS_STATUS, FramePayload_from_BodyComputer(value.v)>>
      [] value.t = "Proxi"         -> <<TOPIC_PROXI, FramePayload_from_Proxi(value.v)>>
      [] value.t = "SteeringWheel" -> <<TOPIC_STEERING_WHEEL, FramePayload_from_SteeringWheel(value.v)>>
      [] value.t = "DateTime"      -> <<TOPIC_DATETIME, FramePayload_from_DateTime(value.v)>>
      [] value.t = "Bt"            -> <<TOPIC_BT, FramePayload_from_Bt(value.v)>>
      [] value.t = "Display"       -> <<TOPIC_DISPLAY, FramePayload_from_Display(value.v)>>
      [] value.t = "RadioStation"  -> <<TOPIC_RADIO_STATION, FramePayload_from_RadioStation(value.v)>>
      [] value.t = "RadioSource"   -> <<TOPIC_RADIO_SOURCE, FramePayload_from_RadioSource(value.v)>>
      [] value.t = "Unknown"       -> <<value.topic, value.payload>>

get_id(topic, publisher) == BitOr(Shl(topic, 16), publisher)

get_topic(id) == AsU16(Shr(id, 16))

get_publisher(id) == AsU16(BitAnd(id, 65535))

Message_from_Frame(frame) ==
    [publisher |-> Publisher_from_u16(get_publisher(frame.identifier)),
     topic |-> Topic_from(get_topic(frame.identifier), frame.data)]

Frame_from_Message(message) ==
    LET tp == Topic_into(message.topic)
    IN  [identifier |-> get_id(tp[1], u16_from_Publisher(message.publisher)),
         extended |-> TRUE,
         data |-> tp[2]]

(* An Option, and a slot that holds a frame or a set of buttons: empty or   *)
(* one value.                                                               *)
None == <<>>

Some(x) == <<x>>

(* The locals as the sub-tasks initialise them, and every slot empty.       *)
GwNew ==
    [pending_proxi_request |-> FALSE, pending_proxi_value |-> None,
     panicked |-> FALSE,
     raw_buttons |-> None,
     send_radio_switch |-> None, send_radio_display |-> None,
     send_proxi |-> None,
     bus_radio |-> "none", bus_phone |-> "none", bus_audio |-> "none",
     sradio |-> "Unknown", sphone |-> "Uninitialized", saudio |-> "Uninitialized",
     version |-> None, offset |-> 0, processing |-> FALSE]

(* The frames counted since the displayed version last changed stop at      *)
(* MaxFrames.                                                               *)
MaxFrames == 4

GwHistNew == [op |-> "new", cmd |-> "none", tx |-> None, frames |-> 0]

GwInit ==
    /\ gw = GwNew
    /\ gw_hist = GwHistNew

(* The modem of run.rs (`RefCell::new(peripherals.modem)`), not borrowed,    *)
(* and the two tasks that borrow it, each suspended in its first            *)
(* wait_enabled.  wifi_sig is Wifi's slot of the system signal.             *)
NetNew ==
    [pc |-> [Wifi |-> "wait_enabled", Bt |-> "wait_enabled"],
     wifi_sig |-> FALSE, modem |-> {}, panicked |-> FALSE, op |-> "new"]

NetInit == net = NetNew

(* A chain SelectSpawn::run(f1).chain(f2)...chain(fn) before its first      *)
(* poll.  Of a future the chain sees only what its poll returns: ready      *)
(* says that the next poll returns Ready(res).  polls counts the polls up   *)
(* to MaxPolls.                                                             *)
ChainLen == 3

MaxPolls == 3

SelectSpawnNew ==
    [futs |-> [i \in 1..ChainLen |->
                  [ready |-> FALSE, res |-> "Ok", polls |-> 0, dropped |-> FALSE]],
     done |-> FALSE, out |-> "none", op |-> "new"]

(* process_debounce_buttons (can.rs:814-866): the locals before the loop,   *)
(* with the raw_buttons signal empty.  Durations are in milliseconds; the   *)
(* model follows the buttons of DebButtons.  ticks counts, per button, the  *)
(* timer ticks since its countdown was started.                             *)
TICK == 10
DebounceTime == 100
DebButtons == {"Menu", "Up"}
DebounceNew ==
    [raw |-> None,
     debouncing |-> [b \in DebButtons |-> None],
     debounced_state |-> {},
     latest_state |-> {},
     ticks |-> [b \in DebButtons |-> 0],
     sent |-> None,
     op |-> "new"]

(* commands.rs: Status::new(), the cells of commands::process and the       *)
(* locals of process_buttons before its loop.  sent is the command the      *)
(* last turn of process_buttons sent, if any.                               *)
StatusNew ==
    [audio |-> "Uninitialized", track |-> "Uninitialized",
     phone |-> "Uninitialized", call |-> "Idle", radio |-> "Unknown"]

CommandsNew ==
    [status |-> StatusNew,
     usb_cutoff_disable_period |-> TRUE,
     usb_cutoff_disable |-> FALSE,
     service_mode |-> FALSE,
     sbuttons |-> {}, conf |-> FALSE, menu |-> FALSE,
     sent |-> None, op |-> "new"]

(* process_speakers (audio.rs:266-305) entering its block: no driver yet.   *)
(* at is the position of the task, driver the profile the I2S driver was    *)
(* created for, buf the bytes popped and not yet written, written the       *)
(* bytes of the last completed write, notif AUDIO_BUFFERS_INCOMING_NOTIF.   *)
SpeakerNew ==
    [at |-> "start", a2dp_conf |-> TRUE, driver |-> None,
     buf |-> <<>>, written |-> <<>>, notif |-> FALSE, op |-> "new"]

ExtInit ==
    /\ sel = SelectSpawnNew
    /\ deb = DebounceNew
    /\ cm = CommandsNew
    /\ spk = SpeakerNew

(* The inputs of the codec: messages of every publisher and every variant  *)
(* the frames of the car carry, and texts over some glyphs of CHAR_MAP.     *)

MaxText == 8

Glyphs == {"A", " ", ";"}

Texts == UNION {[1..n -> Glyphs] : n \in 0..MaxText}

Publishers ==
    {[t |-> "BodyComputer"], [t |-> "InstrumentPanel"], [t |-> "Radio"],
     [t |-> "ParkingSensors"], [t |-> "Bt"], [t |-> "Unknown", id |-> 4660]}

DisplayTexts == {<<>>, <<"A", " ", ";">>, <<"A", "A", "A", "A", "A", "A", "A">>}

Topics ==
    {[t |-> "BodyComputer", v |-> [t |-> op]] :
        op \in {"WakeupRequest", "StatusRequest", "ShutDownRequest",
                "PoweringOn", "Active", "AboutToSleep"}}
    \cup {[t |-> "BodyComputer", v |-> [t |-> "Unknown", bytes |-> <<1, 2, 3>>]]}
    \cup {[t |-> "Proxi", v |-> [t |-> "Request"]],
          [t |-> "Proxi", v |-> [t |-> "Response", bytes |-> <<97, 98, 99, 100, 101, 102>>]],
          [t |-> "Proxi", v |-> [t |-> "Response", bytes |-> <<0, 0, 0, 0, 0, 0>>]],
          [t |-> "Proxi", v |-> [t |-> "Unknown", bytes |-> <<7>>]]}
    \cup {[t |-> "SteeringWheel", v |-> [t |-> "Buttons", buttons |-> bs1]] :
             bs1 \in SUBSET SteeringWheelButtons}
    \cup {[t |-> "Bt", v |-> [t |-> op]] :
             op \in {"Mute", "Phone", "Voice", "Navigation", "Media"}}
    \cup {[t |-> "Display",
           v |-> [t |-> "Text", text |-> txt, chunk |-> c, total_chunks |-> n,
                  for_radio |-> r, menu |-> m]] :
             txt \in DisplayTexts, c \in 0..2, n \in 1..3,
             r \in BOOLEAN, m \in BOOLEAN}
    \cup {[t |-> "RadioSource", v |-> [t |-> "Fm", freq |-> f]] :
             f \in {0, 875, 1079, 65535}}
    \cup {[t |-> "RadioSource", v |-> [t |-> "BtPlaying"]],
          [t |-> "RadioSource", v |-> [t |-> "BtMuted"]],
          [t |-> "RadioSource", v |-> [t |-> "Unknown", bytes |-> <<1>>]],
          [t |-> "Unknown", topic |-> 291, payload |-> <<9, 8>>]}

CodecInputs ==
    {[kind |-> "message", message |-> [publisher |-> pb, topic |-> tp]] :
        pb \in Publishers, tp \in Topics}
    \cup {[kind |-> "text", text |-> txt] : txt \in Texts}

CodecInit ==
    /\ LifeInit /\ RingInit /\ BusInit /\ BuffersInit /\ GwInit /\ NetInit
    /\ ExtInit
    /\ pureIn \in CodecInputs
    /\ pureOut = [kind |-> "none"]

(* A message is made a frame (as_frame, process_send) and the frame is read *)
(* back (process_recv).                                                     *)
RoundTripMessage ==
    /\ pureIn.kind = "message"
    /\ pureOut.kind = "none"
    /\ pureOut' = [kind |-> "message",
                   frame |-> Frame_from_Message(pureIn.message),
                   message |-> Message_from_Frame(Frame_from_Message(pureIn.message))]
    /\ UNCHANGED <<lifeVars, ringVars, pureIn, busVars, abVars, gwVars, netVars, extVars>>

RoundTripText ==
    /\ pureIn.kind = "text"
    /\ pureOut.kind = "none"
    /\ pureOut' = [kind |-> "text",
                   payload |-> encode_display_text(pureIn.text),
                   text |-> decode_display_text(encode_display_text(pureIn.text))]
    /\ UNCHANGED <<lifeVars, ringVars, pureIn, busVars, abVars, gwVars, netVars, extVars>>

CodecNext == RoundTripMessage \/ RoundTripText

----------------------------------------------------------------------------
(* can::process: the sub-tasks of the body (can.rs:681-953).  gw holds the  *)
(* locals of process_recv, process_radio_mux and process_display, the       *)
(* frame slots process_send waits on, and Can's slots of bus.radio,         *)
(* bus.phone and bus.audio.  An empty slot or None is "none".               *)

AudioStates == {"Uninitialized", "Initialized", "Connected", "Streaming", "Suspended"}

RadioStates == {"Unknown", "Fm", "BtActive", "BtMuted"}

is_bt_active_or_muted(st) == st \in {"BtActive", "BtMuted"}

is_bt_active(st) == st = "BtActive"

as_frame(topic) == Frame_from_Message([publisher |-> [t |-> "Bt"], topic |-> topic])

(* `pv.copy_from_slice(pvr)` into `[0; 8]`: the lengths must be equal, or   *)
(* the call panics.                                                         *)
copy_from_slice(dst_len, src) ==
    IF Len(src) = dst_len THEN [ok |-> TRUE, pv |-> src]
    ELSE [ok |-> FALSE, pv |-> <<>>]

process_recv_proxi(g, payload) ==
    LET g1 == CASE payload.t = "Request" ->
                       [g EXCEPT !.pending_proxi_request = TRUE]
                [] payload.t = "Response" ->
                       IF g.pending_proxi_value = None
                       THEN LET c == copy_from_slice(8, payload.bytes)
                            IN  IF c.ok
                                THEN [g EXCEPT !.pending_proxi_value = Some(c.pv)]
                                ELSE [g EXCEPT !.panicked = TRUE]
                       ELSE g
                [] OTHER -> g
    IN  IF ~g1.panicked /\ g1.pending_proxi_request
                        /\ g1.pending_proxi_value # None
        THEN [g1 EXCEPT
                 !.send_proxi =
                     Some(as_frame([t |-> "Proxi",
                                    v |-> [t |-> "Response",
                                           bytes |-> g1.pending_proxi_value[1]]])),
                 !.pending_proxi_request = FALSE]
        ELSE g1

process_recv_steering_wheel(g, payload) ==
    IF payload.t = "Buttons" THEN [g EXCEPT !.raw_buttons = Some(payload.buttons)]
    ELSE g

(* radio.send(state): Can's own slot of bus.radio is among those written.   *)
process_recv_radio_source(g, payload) ==
    LET st == CASE payload.t = "Fm"        -> "Fm"
                [] payload.t = "BtPlaying" -> "BtActive"
                [] payload.t = "BtMuted"   -> "BtMuted"
                [] payload.t = "Unknown"   -> "Unknown"
    IN  [g EXCEPT !.bus_radio = st]

(* The frames that arrive: the requests and answers of the PROXI            *)
(* alignment, the steering wheel, the radio's source (a tuned station is    *)
(* six bytes on the wire), the clock, and a topic the task ignores.         *)
RawFrame(topic, publisher, data) ==
    [identifier |-> get_id(topic, publisher), extended |-> TRUE, data |-> data]

GwFrames ==
    {RawFrame(TOPIC_PROXI, UNIT_BODY_COMPUTER, <<>>),
     RawFrame(TOPIC_PROXI, UNIT_RADIO, <<97, 98, 99, 100, 101, 102>>),
     RawFrame(TOPIC_PROXI, UNIT_RADIO, <<1>>),
     RawFrame(TOPIC_STEERING_WHEEL, UNIT_BODY_COMPUTER, <<32, 0>>),
     RawFrame(TOPIC_RADIO_SOURCE, UNIT_RADIO, <<227, 0, 0, 0, 2, 0>>),
     RawFrame(TOPIC_RADIO_SOURCE, UNIT_RADIO, <<227, 0, 0, 0, 0, 0>>),
     RawFrame(TOPIC_RADIO_SOURCE, UNIT_RADIO, <<0, 0, 3, 107, 0, 0>>),
     RawFrame(TOPIC_DATETIME, UNIT_BODY_COMPUTER, <<32, 38, 17, 4, 18, 48>>),
     RawFrame(TOPIC_BT, UNIT_RADIO, <<0, 0>>)}

(* process_recv: one frame is received, decoded and dispatched.  The        *)
(* frames of the BodyComputer topic are CanRecv's.                          *)
GwRecv(frame) ==
    LET message == Message_from_Frame(frame)
        topic == message.topic
        g1 == CASE topic.t = "Proxi"         -> process_recv_proxi(gw, topic.v)
                [] topic.t = "SteeringWheel" -> process_recv_steering_wheel(gw, topic.v)
                [] topic.t = "RadioSource"   -> process_recv_radio_source(gw, topic.v)
                [] topic.t = "DateTime" /\ topic.v.t = "panic" ->
                       [gw EXCEPT !.panicked = TRUE]
                [] OTHER -> gw
    IN  /\ ~gw.panicked
        /\ gw' = g1
        /\ gw_hist' = [gw_hist EXCEPT !.op = topic.t, !.cmd = "none", !.tx = None]
        /\ UNCHANGED <<lifeVars, ringVars, pureVars, busVars, abVars, netVars, extVars>>

(* bt.rs publishes the media and the hands-free audio state.                *)
AudioInputs == {"Connected", "Streaming"}

BusPhone(st) ==
    /\ ~gw.panicked
    /\ gw' = [gw EXCEPT !.bus_phone = st]
    /\ gw_hist' = [gw_hist EXCEPT !.op = "phone", !.cmd = "none", !.tx = None]
    /\ UNCHANGED <<lifeVars, ringVars, pureVars, busVars, abVars, netVars, extVars>>

BusAudio(st) ==
    /\ ~gw.panicked
    /\ gw' = [gw EXCEPT !.bus_audio = st]
    /\ gw_hist' = [gw_hist EXCEPT !.op = "audio", !.cmd = "none", !.tx = None]
    /\ UNCHANGED <<lifeVars, ringVars, pureVars, busVars, abVars, netVars, extVars>>

(* process_radio_mux: one turn of the loop.  select3 polls radio.recv(),    *)
(* phone.recv() and audio.recv() in this order and yields the first that    *)
(* is ready; the others keep their values.  cmd is what the turn sent on    *)
(* radio_commands.                                                          *)
process_radio_mux(g) ==
    IF g.bus_radio # "none"
    THEN [g |-> [g EXCEPT !.sradio = g.bus_radio, !.bus_radio = "none"],
          cmd |-> IF is_active(g.saudio) /\ ~is_active(g.sphone)
                  THEN IF g.bus_radio = "BtActive" THEN "Resume" ELSE "Pause"
                  ELSE "none"]
    ELSE IF g.bus_phone # "none"
    THEN [g |-> [g EXCEPT !.sphone = g.bus_phone, !.bus_phone = "none",
                          !.send_radio_switch =
                              IF is_active(g.bus_phone) /\ ~is_bt_active(g.sradio)
                              THEN Some(as_frame([t |-> "Bt", v |-> [t |-> "Phone"]]))
                              ELSE @],
          cmd |-> "none"]
    ELSE [g |-> [g EXCEPT !.saudio = g.bus_audio, !.bus_audio = "none"],
          cmd |-> "none"]

GwRadioMux ==
    /\ ~gw.panicked
    /\ gw.bus_radio # "none" \/ gw.bus_phone # "none" \/ gw.bus_audio # "none"
    /\ gw' = process_radio_mux(gw).g
    /\ gw_hist' = [gw_hist EXCEPT !.op = "radio_mux",
                                  !.cmd = process_radio_mux(gw).cmd,
                                  !.tx = None]
    /\ UNCHANGED <<lifeVars, ringVars, pureVars, busVars, abVars, netVars, extVars>>

(* process_send: select_slice yields the first slot that holds a frame, in  *)
(* the order of the array, and the frame is transmitted.                    *)
GwSend ==
    /\ ~gw.panicked
    /\ \/ gw.send_radio_switch # None
       \/ gw.send_radio_display # None
       \/ gw.send_proxi # None
    /\ IF gw.send_radio_switch # None
       THEN /\ gw' = [gw EXCEPT !.send_radio_switch = None]
            /\ gw_hist' = [gw_hist EXCEPT !.op = "send", !.cmd = "none",
                                          !.tx = gw.send_radio_switch]
       ELSE IF gw.send_radio_display # None
       THEN /\ gw' = [gw EXCEPT !.send_radio_display = None]
            /\ gw_hist' = [gw_hist EXCEPT !.op = "send", !.cmd = "none",
                                          !.tx = gw.send_radio_display]
       ELSE /\ gw' = [gw EXCEPT !.send_proxi = None]
            /\ gw_hist' = [gw_hist EXCEPT !.op = "send", !.cmd = "none",
                                          !.tx = gw.send_proxi]
    /\ UNCHANGED <<lifeVars, ringVars, pureVars, busVars, abVars, netVars, extVars>>

(* What the mutators of DisplayText write into the text: update_phone_info  *)
(* "{} {:02}:{:02}", update_track_info "{};{};{:02}:{:02}".                 *)
RenderedText(text) ==
    CASE text = <<>> -> <<>>
      [] text = <<"phone", "phone1">> -> <<"1", " ", "0", "0", ":", "0", "5">>
      [] text = <<"track", "track1">> ->
             <<"A", "L", "B", "U", "M", "X", "X", ";",
               "A", "R", "T", "I", "S", "T", ";", "0",
               "0", ":", "0", "0">>
      [] text = <<"track", "track2">> -> <<"A", ";", "B", ";", "0", "0", ":", "0", "0">>

(* The closure process_display hands to text.state(), for the radio         *)
(* (for_radio = true).  wraps: the build has no overflow checks, so         *)
(* `total_chunks - 1` in the encoder wraps for total_chunks = 0; with the   *)
(* checks it panics.  Of usize::MAX only the low bits matter to `as u8`.    *)
process_display_closure(g, text, for_radio, wraps) ==
    LET g1 == IF Some(text.version) # g.version
              THEN [g EXCEPT !.version = Some(text.version), !.offset = 0,
                             !.processing = TRUE]
              ELSE g
        menu == text.menu /\ ~for_radio
        chars == RenderedText(text.text)
        chunk_payload == SubSeq(chars, g1.offset + 1, min(g1.offset + 8, Len(chars)))
        chunk == g1.offset \div 8
        total_chunks == (IF Len(chars) = 0 THEN 1
                         ELSE (Len(chars) \div 8)
                                  + (IF Len(chars) % 8 > 0 THEN 1 ELSE 0)) - 1
        topic == [t |-> "Display",
                  v |-> [t |-> "Text", for_radio |-> for_radio, menu |-> menu,
                         text |-> chunk_payload, chunk |-> chunk,
                         total_chunks |-> IF total_chunks = 0 THEN 16777216
                                          ELSE total_chunks]]
    IN  IF g1.send_radio_display = None /\ g1.processing
        THEN IF total_chunks = 0 /\ ~wraps
             THEN [g1 EXCEPT !.panicked = TRUE]
             ELSE [g1 EXCEPT !.send_radio_display = Some(as_frame(topic)),
                             !.processing = IF chunk = total_chunks THEN FALSE ELSE @]
        ELSE g1

(* process_display: one turn of the loop, woken by text.recv() or by the    *)
(* 10 ms timer; recv() takes Can's slot of the signal if it is set.         *)
GwDisplay(wraps) ==
    LET g1 == process_display_closure(gw, StateSnapshot(dt), TRUE, wraps)
        signalled == g1.send_radio_display # gw.send_radio_display
    IN  /\ ~gw.panicked
        /\ gw' = g1
        /\ gw_hist' = [op |-> "display", cmd |-> "none", tx |-> None,
                       frames |-> IF signalled
                                  THEN min(MaxFrames,
                                           1 + IF Some(dt.state.version) # gw.version
                                               THEN 0 ELSE gw_hist.frames)
                                  ELSE IF Some(dt.state.version) # gw.version
                                  THEN 0 ELSE gw_hist.frames]
        /\ dt' = [dt EXCEPT !.signal[Index("Can")] = FALSE]
        /\ dt_hist' = [dt_hist EXCEPT !.op = "state", !.seen = StateSnapshot(dt)]
        /\ UNCHANGED <<lifeVars, ringVars, pureVars, bs, bs_hist, abVars, netVars, extVars>>

----------------------------------------------------------------------------
(* updates::process (updates.rs:20-64), the task of the Wifi service, and   *)
(* a task of the Bt service that borrows the same modem for its run.        *)
(* Service::Wifi has discriminant 8 and the slot array of signal.rs has     *)
(* MAX_RECEIVERS = 8 slots; Wifi is given the slot wifi_sig, which every    *)
(* modify that wakes the receivers sets like the others.                    *)

NetWorld == [sys |-> sys, sig |-> sig @@ (Index("Wifi") :> net.wifi_sig)]

NetSig(w) == [i \in SlotIndexes |-> w.sig[i]]

(* RefCell::borrow_mut: panics if the cell is borrowed.                     *)
borrow_mut(n, svc) ==
    IF n.modem # {} THEN [n EXCEPT !.panicked = TRUE, !.pc[svc] = "panicked"]
    ELSE [n EXCEPT !.modem = {svc}]

(* One round of the inner loop of updates::process up to its select:        *)
(* `modem.borrow_mut()`, the driver is created and started, then            *)
(* `bus.service.started();`, whose guard is dropped at once, and the first  *)
(* poll of wait_disabled.  ok: create, set_configuration and start succeed; *)
(* on an error the `?` leaves the task and drops the borrow.                *)
wifi_round(w, n, ok) ==
    LET n1 == borrow_mut(n, "Wifi")
        w1 == StartedDiscarded(w, "Wifi")
    IN  IF n1.panicked THEN [w |-> w, n |-> n1]
        ELSE IF ~ok THEN [w |-> w, n |-> [n EXCEPT !.modem = {}, !.pc.Wifi = "exited"]]
        ELSE [w |-> WaitDisabledFirstPoll(w1, "Wifi"),
              n |-> [n1 EXCEPT !.pc.Wifi = "running"]]

NetStep(r, op) ==
    /\ sys' = r.w.sys
    /\ sig' = NetSig(r.w)
    /\ net' = [r.n EXCEPT !.wifi_sig = r.w.sig[Index("Wifi")], !.op = op]
    /\ UNCHANGED <<pc, guard, a2dp, a2dp_conf, phone, status_out>>
    /\ UNCHANGED <<ringVars, pureVars, busVars, abVars, gwVars, extVars>>

(* wait_enabled completes and the first round starts.                       *)
WifiStart(ok) ==
    LET w1 == Recv(NetWorld, "Wifi")
    IN  /\ ~net.panicked
        /\ net.pc.Wifi = "wait_enabled"
        /\ Signaled(NetWorld.sig, "Wifi")
        /\ WaitCompletes(w1, "Wifi", TRUE)
        /\ NetStep(wifi_round(w1, net, ok), "WifiStart")

(* A wake that finds the predicate as it was: the slot is consumed and the  *)
(* wait goes on.                                                            *)
WifiWaitPending ==
    LET w1 == Recv(NetWorld, "Wifi")
    IN  /\ ~net.panicked
        /\ net.pc.Wifi \in {"wait_enabled", "running"}
        /\ Signaled(NetWorld.sig, "Wifi")
        /\ ~WaitCompletes(w1, "Wifi", net.pc.Wifi = "wait_enabled")
        /\ NetStep([w |-> w1, n |-> net], "WifiWaitPending")

(* wait_disabled completes: `driver.stop().await?; stopped(); res?;`, the   *)
(* borrow is dropped at the end of the block, and the inner `loop` starts   *)
(* its next round: nothing leaves it but an error.  stop_ok: driver.stop    *)
(* succeeds; ok as in wifi_round.                                           *)
WifiDisabled(stop_ok, ok) ==
    LET w1 == Recv(NetWorld, "Wifi")
        w2 == DropStarted(w1, "Wifi")
        n1 == [net EXCEPT !.modem = {}]
    IN  /\ ~net.panicked
        /\ net.pc.Wifi = "running"
        /\ Signaled(NetWorld.sig, "Wifi")
        /\ WaitCompletes(w1, "Wifi", FALSE)
        /\ IF stop_ok
           THEN NetStep(wifi_round(w2, n1, ok), "WifiDisabled")
           ELSE NetStep([w |-> w1, n |-> [n1 EXCEPT !.pc.Wifi = "exited"]],
                        "WifiDisabled")

(* The Bt task: wait_enabled, borrow_mut for the run, started() with the    *)
(* guard kept, wait_disabled, the driver and the borrow released.           *)
BtStart ==
    LET w1 == Recv(NetWorld, "Bt")
        n1 == borrow_mut(net, "Bt")
    IN  /\ ~net.panicked
        /\ net.pc.Bt = "wait_enabled"
        /\ Signaled(NetWorld.sig, "Bt")
        /\ WaitCompletes(w1, "Bt", TRUE)
        /\ IF n1.panicked
           THEN NetStep([w |-> w1, n |-> n1], "BtStart")
           ELSE NetStep([w |-> WaitDisabledFirstPoll(started(w1, "Bt"), "Bt"),
                         n |-> [n1 EXCEPT !.pc.Bt = "running"]], "BtStart")

BtWaitPending ==
    LET w1 == Recv(NetWorld, "Bt")
    IN  /\ ~net.panicked
        /\ net.pc.Bt \in {"wait_enabled", "running"}
        /\ Signaled(NetWorld.sig, "Bt")
        /\ ~WaitCompletes(w1, "Bt", net.pc.Bt = "wait_enabled")
        /\ NetStep([w |-> w1, n |-> net], "BtWaitPending")

BtDisabled ==
    LET w1 == Recv(NetWorld, "Bt")
    IN  /\ ~net.panicked
        /\ net.pc.Bt = "running"
        /\ Signaled(NetWorld.sig, "Bt")
        /\ WaitCompletes(w1, "Bt", FALSE)
        /\ NetStep([w |-> DropStarted(w1, "Bt"),
                    n |-> [net EXCEPT !.modem = {}, !.pc.Bt = "wait_enabled"]],
                   "BtDisabled")

(* The calls that change the mode or sys_enabled, made on any handle.       *)
NetSetters(w) ==
    {sys_set_service_mode(w), sys_set_update_mode(w), sys_set_normal_mode(w),
     sys_start(w), sys_stop(w)}

NetSet(w) ==
    /\ ~net.panicked
    /\ NetStep([w |-> w, n |-> net], "set")

ModemNext ==
    \/ \E w \in NetSetters(NetWorld) : NetSet(w)
    \/ \E ok \in BOOLEAN : WifiStart(ok)
    \/ WifiWaitPending
    \/ \E stop_ok \in BOOLEAN, ok \in BOOLEAN : WifiDisabled(stop_ok, ok)
    \/ BtStart
    \/ BtWaitPending
    \/ BtDisabled

----------------------------------------------------------------------------
(* select_spawn.rs: SelectSpawn.  run(f) wraps f; chain(g) wraps            *)
(* `select(self.0, g)` in an async block that returns the result of         *)
(* whichever side completed; poll() polls the wrapped future.               *)

SelResults == {"Ok", "Err"}

select_prefers_second(a, b) == IF b.ready THEN b ELSE a

(* embassy_futures::select::select(a, b), one poll: a is polled first, and  *)
(* b only if a is pending.  upto is the last future polled.                 *)
select(a, b) == IF a.ready THEN a ELSE b

(* One poll of the chain of the first n futures.                            *)
RECURSIVE chain_poll(_, _)
chain_poll(futs, n) ==
    LET last == [ready |-> futs[n].ready, res |-> futs[n].res, upto |-> n]
    IN  IF n = 1 THEN last ELSE select(chain_poll(futs, n - 1), last)

(* The event a future waits for happens: its next poll returns res.         *)
SelWake(i, res) ==
    /\ ~sel.done
    /\ ~sel.futs[i].ready
    /\ sel' = [sel EXCEPT !.futs[i].ready = TRUE, !.futs[i].res = res,
                          !.op = "wake"]
    /\ UNCHANGED <<lifeVars, ringVars, pureVars, busVars, abVars, gwVars, netVars>>
    /\ UNCHANGED <<deb, cm, spk>>

(* The task polls the chain.  When a side completes, the async blocks       *)
(* return and the Select futures inside them are dropped with all they      *)
(* hold.                                                                    *)
SelPoll ==
    LET r == chain_poll(sel.futs, ChainLen)
        polled == [i \in 1..ChainLen |->
                      IF i <= r.upto
                      THEN [sel.futs[i] EXCEPT !.polls = @ + 1]
                      ELSE sel.futs[i]]
    IN  /\ ~sel.done
        /\ \A i \in 1..ChainLen : sel.futs[i].polls < MaxPolls
        /\ sel' = IF r.ready
                  THEN [futs |-> [i \in 1..ChainLen |->
                                     [polled[i] EXCEPT !.dropped = TRUE]],
                        done |-> TRUE, out |-> r.res, op |-> "poll"]
                  ELSE [sel EXCEPT !.futs = polled, !.op = "poll"]
        /\ UNCHANGED <<lifeVars, ringVars, pureVars, busVars, abVars, gwVars, netVars>>
        /\ UNCHANGED <<deb, cm, spk>>

(* An event of a dropped future happens after the chain has completed:      *)
(* the future is gone and nothing polls it.                                 *)
SelLateWake(i) ==
    /\ sel.done
    /\ ~sel.futs[i].ready
    /\ sel.op # "late_wake"
    /\ sel' = [sel EXCEPT !.op = "late_wake"]
    /\ UNCHANGED <<lifeVars, ringVars, pureVars, busVars, abVars, gwVars, netVars>>
    /\ UNCHANGED <<deb, cm, spk>>

(* process_recv_steering_wheel signals the raw set of a received frame; a   *)
(* Signal keeps the latest value.                                           *)
DebRaw(new) ==
    /\ deb' = [deb EXCEPT !.raw = Some(new), !.op = "raw"]
    /\ UNCHANGED <<lifeVars, ringVars, pureVars, busVars, abVars, gwVars, netVars>>
    /\ UNCHANGED <<sel, cm, spk>>

(* Either::First: the raw set is taken; every button whose raw value        *)
(* differs from the latest one and that is not counting starts counting.    *)
DebTake ==
    /\ deb.raw # None
    /\ LET new == deb.raw[1]
           flips == {b \in DebButtons :
                        (b \in deb.latest_state) # (b \in new)
                        /\ deb.debouncing[b] = None}
       IN  deb' = [deb EXCEPT
                      !.raw = None,
                      !.debouncing = [b \in DebButtons |->
                                         IF b \in flips THEN Some(DebounceTime)
                                         ELSE deb.debouncing[b]],
                      !.ticks = [b \in DebButtons |->
                                    IF b \in flips THEN 0 ELSE deb.ticks[b]],
                      !.latest_state = new,
                      !.op = "take"]
    /\ UNCHANGED <<lifeVars, ringVars, pureVars, busVars, abVars, gwVars, netVars>>
    /\ UNCHANGED <<sel, cm, spk>>

(* The buttons whose countdown expires at this tick.                        *)
DebExpiring(d) ==
    {b \in DebButtons : d.debouncing[b] # None /\ d.debouncing[b][1] < TICK}

(* The body of Either::Second over the buttons in the order of all: an       *)
(* expired button is committed with `debounced_state |= button` when it is  *)
(* in the latest raw set and with `debounced_state &= button` when it is    *)
(* not; EnumSet's &= is the intersection.                                   *)
RECURSIVE debounce_tick(_, _)
debounce_tick(st, all) ==
    IF all = <<>> THEN st
    ELSE LET button == Head(all)
         IN  debounce_tick(
                 IF button \in DebExpiring(deb)
                 THEN IF button \in deb.latest_state
                      THEN st \cup {button}
                      ELSE st \cap {button}
                 ELSE st,
                 Tail(all))

(* Either::Second: the 10 ms timer fired with no raw set pending.           *)
DebTick ==
    /\ deb.raw = None
    /\ \E b \in DebButtons : deb.debouncing[b] # None
    /\ LET out == debounce_tick(deb.debounced_state, <<"Menu", "Up">>)
       IN  deb' = [deb EXCEPT
                      !.debouncing = [b \in DebButtons |->
                                         IF deb.debouncing[b] = None
                                            \/ b \in DebExpiring(deb)
                                         THEN None
                                         ELSE Some(deb.debouncing[b][1] - TICK)],
                      !.ticks = [b \in DebButtons |->
                                    IF deb.debouncing[b] = None THEN deb.ticks[b]
                                    ELSE deb.ticks[b] + 1],
                      !.debounced_state = out,
                      !.sent = IF DebExpiring(deb) # {} THEN Some(out) ELSE None,
                      !.op = "tick"]
    /\ UNCHANGED <<lifeVars, ringVars, pureVars, busVars, abVars, gwVars, netVars>>
    /\ UNCHANGED <<sel, cm, spk>>

DebounceNext ==
    \/ \E new \in SUBSET DebButtons : DebRaw(new)
    \/ DebTake
    \/ DebTick

(* bus.rs: AudioState::is_connected and AudioTrackState::is_connected.      *)
audio_is_connected(st) == st = "Connected" \/ is_active(st)

track_is_connected(st) == st = "Connected" \/ st \in {"Playing", "Paused"}

PhoneCallStates == {"Idle", "Dialing", "DialingAlerting", "Ringing", "CallActive"}

MediaCommands == {"Pause", "Resume", "NextTrack", "PreviousTrack"}

(* handle_shortcuts: the command sent, if any, and the menu flag.           *)
handle_shortcuts(just_pressed, m, st) ==
    IF st.call \in {"Dialing", "DialingAlerting", "CallActive"}
    THEN [menu |-> m,
          sent |-> IF "Menu" \in just_pressed THEN Some("Hangup") ELSE None]
    ELSE IF st.call = "Ringing"
    THEN [menu |-> m,
          sent |-> IF "Menu" \in just_pressed THEN Some("Answer")
                   ELSE IF "Down" \in just_pressed THEN Some("Reject")
                   ELSE None]
    ELSE IF "Menu" \in just_pressed
    THEN [menu |-> TRUE, sent |-> None]
    ELSE IF is_bt_active(st.radio) /\ audio_is_connected(st.audio)
    THEN [menu |-> m,
          sent |-> IF "Mute" \in just_pressed
                   THEN IF st.audio = "Streaming" THEN Some("Pause")
                        ELSE IF st.audio \in {"Connected", "Suspended"}
                        THEN Some("Resume")
                        ELSE None
                   ELSE IF "Up" \in just_pressed /\ track_is_connected(st.track)
                   THEN Some("PreviousTrack")
                   ELSE IF "Down" \in just_pressed /\ track_is_connected(st.track)
                   THEN Some("NextTrack")
                   ELSE None]
    ELSE [menu |-> m, sent |-> None]

(* handle_phone_menu.                                                       *)
handle_phone_menu(just_pressed, m) ==
    [menu |-> IF "Up" \in just_pressed THEN FALSE ELSE m, sent |-> None]

(* handle_run.                                                              *)
handle_run(just_pressed, m, st) ==
    LET m1 == IF is_active(st.phone) THEN FALSE ELSE m
    IN  IF m1 THEN handle_phone_menu(just_pressed, m1)
        ELSE handle_shortcuts(just_pressed, m1, st)

(* handle_conf does nothing.                                                *)
handle_conf(just_pressed, m) == [menu |-> m, sent |-> None]

(* The branch of process_buttons that leaves conf alone when the phone      *)
(* audio is not active.                                                     *)
CutoffShortcut(c, pressed) ==
    c.usb_cutoff_disable_period /\ "Mute" \in pressed /\ "Windows" \in pressed

(* process_buttons: one turn of the loop on the button set received.        *)
CmButtons(pressed) ==
    LET just_pressed == cm.sbuttons \cap pressed
        phone_active == is_active(cm.status.phone)
        shortcut == ~phone_active /\ CutoffShortcut(cm, pressed)
        conf1 == IF phone_active THEN FALSE
                 ELSE IF shortcut THEN cm.conf
                 ELSE ~cm.conf
        out == IF conf1 THEN handle_conf(just_pressed, cm.menu)
               ELSE handle_run(just_pressed, cm.menu, cm.status)
    IN  /\ cm' = [cm EXCEPT
                     !.sbuttons = pressed,
                     !.conf = conf1,
                     !.usb_cutoff_disable = IF shortcut THEN TRUE ELSE @,
                     !.service_mode =
                         IF shortcut /\ "VolumeUp" \in pressed THEN TRUE ELSE @,
                     !.menu = out.menu,
                     !.sent = out.sent,
                     !.op = "buttons"]
        /\ UNCHANGED <<lifeVars, ringVars, pureVars, busVars, abVars, gwVars, netVars>>
        /\ UNCHANGED <<sel, deb, spk>>

(* process_status: one turn of the loop stores the state received.          *)
CmStatus(field, value) ==
    /\ cm.status[field] # value
    /\ cm' = [cm EXCEPT !.status[field] = value, !.sent = None, !.op = "status"]
    /\ UNCHANGED <<lifeVars, ringVars, pureVars, busVars, abVars, gwVars, netVars>>
    /\ UNCHANGED <<sel, deb, spk>>

(* The button sets and the states published in the model.                   *)
CmButtonSets == SUBSET {"Menu", "Down", "Windows", "Mute"}

CmStatusInputs ==
    ({"call"} \X PhoneCallStates)
    \cup ({"phone"} \X {"Connected", "Streaming"})
    \cup ({"audio"} \X {"Connected", "Streaming"})
    \cup ({"track"} \X {"Connected"})
    \cup ({"radio"} \X {"Fm", "BtActive"})

CommandsNext ==
    \/ \E pressed \in CmButtonSets : CmButtons(pressed)
    \/ \E in \in CmStatusInputs : CmStatus(in[1], in[2])

(* The speaker task on the shared buffers.  A Bluetooth callback pushes     *)
(* incoming audio under the lock (the bytes carry the profile they were     *)
(* pushed under) and signals the notification above the watermark.          *)
SpkPushIncoming(n, tag) ==
    LET data == [i \in 1..n |-> ProfileByte(ab.a2dp)]
        res == push_incoming(ab, data, tag)
    IN  /\ ab' = res.ab
        /\ ab_hist' = [mismatch |-> tag # ab.a2dp, ret |-> res.ret,
                       out |-> <<>>,
                       incoming_notif |-> res.incoming_notif,
                       outgoing_notif |-> res.outgoing_notif]
        /\ spk' = [spk EXCEPT !.notif = @ \/ res.incoming_notif, !.op = "push"]
        /\ UNCHANGED <<lifeVars, ringVars, pureVars, busVars, gwVars, netVars>>
        /\ UNCHANGED <<sel, deb, cm>>

(* The audio mux sets the profile under the lock.                           *)
SpkSetA2dp(p) ==
    /\ ab' = AudioBuffers_set_a2dp(ab, p)
    /\ ab_hist' = [mismatch |-> FALSE, ret |-> 0, out |-> <<>>,
                   incoming_notif |-> FALSE, outgoing_notif |-> FALSE]
    /\ spk' = [spk EXCEPT !.op = "set_a2dp"]
    /\ UNCHANGED <<lifeVars, ringVars, pureVars, busVars, gwVars, netVars>>
    /\ UNCHANGED <<sel, deb, cm>>

(* process_speakers: a2dp_conf is read under the lock, and the driver is    *)
(* created for it; ok: i2s_create and tx_enable succeed.                    *)
SpkCreate(ok) ==
    /\ spk.at \in {"start", "rebuild"}
    /\ spk' = [spk EXCEPT
                  !.a2dp_conf = IF spk.at = "start" THEN is_a2dp(ab) ELSE @,
                  !.driver = IF ok
                             THEN Some(IF spk.at = "start" THEN is_a2dp(ab)
                                       ELSE spk.a2dp_conf)
                             ELSE None,
                  !.at = IF ok THEN "lock" ELSE "exited",
                  !.op = "create"]
    /\ UNCHANGED <<lifeVars, ringVars, pureVars, busVars, abVars, gwVars, netVars>>
    /\ UNCHANGED <<sel, deb, cm>>

(* The locked block of process_speakers_writing and the test after it: the  *)
(* profile is read and, if it is the configured one, the ring is popped     *)
(* into a buffer of n bytes.  On a mismatch the loop is left, the driver is *)
(* disabled (ok: tx_disable succeeds) and the outer loop continues.         *)
process_speakers_writing(b, conf, n) ==
    IF conf = b.a2dp
    THEN pop_incoming(b, n, b.a2dp)
    ELSE [ab |-> b, out |-> <<>>, ret |-> 0]

SpkLock(n, ok) ==
    LET res == process_speakers_writing(ab, spk.a2dp_conf, n)
    IN  /\ spk.at = "lock"
        /\ ab' = res.ab
        /\ ab_hist' = [mismatch |-> FALSE, ret |-> res.ret, out |-> res.out,
                       incoming_notif |-> FALSE, outgoing_notif |-> FALSE]
        /\ spk' = IF spk.a2dp_conf # ab.a2dp
                  THEN [spk EXCEPT !.a2dp_conf = ab.a2dp,
                                   !.driver = None,
                                   !.buf = <<>>,
                                   !.at = IF ok THEN "rebuild" ELSE "exited",
                                   !.op = "flip_seen"]
                  ELSE IF res.ret > 0
                  THEN [spk EXCEPT !.buf = res.out, !.at = "write", !.op = "pop"]
                  ELSE [spk EXCEPT !.buf = <<>>, !.at = "wait", !.op = "pop"]
        /\ UNCHANGED <<lifeVars, ringVars, pureVars, busVars, gwVars, netVars>>
        /\ UNCHANGED <<sel, deb, cm>>

(* write_all_async completes: the popped bytes went to the driver, or the   *)
(* write failed and the task leaves with the error.                         *)
SpkWrite(io_ok) ==
    /\ spk.at = "write"
    /\ spk' = [spk EXCEPT !.written = IF io_ok THEN spk.buf ELSE <<>>,
                          !.buf = <<>>,
                          !.at = IF io_ok THEN "lock" ELSE "exited",
                          !.driver = IF io_ok THEN @ ELSE None,
                          !.op = "write"]
    /\ UNCHANGED <<lifeVars, ringVars, pureVars, busVars, abVars, gwVars, netVars>>
    /\ UNCHANGED <<sel, deb, cm>>

(* AUDIO_BUFFERS_INCOMING_NOTIF.wait() completes and takes the signal.      *)
SpkWake ==
    /\ spk.at = "wait"
    /\ spk.notif
    /\ spk' = [spk EXCEPT !.notif = FALSE, !.at = "lock", !.op = "wake"]
    /\ UNCHANGED <<lifeVars, ringVars, pureVars, busVars, abVars, gwVars, netVars>>
    /\ UNCHANGED <<sel, deb, cm>>

SpeakerNext ==
    \/ \E n \in 0..MaxAudioData : \E tag \in BOOLEAN : SpkPushIncoming(n, tag)
    \/ \E p \in BOOLEAN : SpkSetA2dp(p)
    \/ \E ok \in BOOLEAN : SpkCreate(ok)
    \/ \E n \in 1..MaxAudioOut : \E ok \in BOOLEAN : SpkLock(n, ok)
    \/ \E io_ok \in BOOLEAN : SpkWrite(io_ok)
    \/ SpkWake

SelectNext ==
    \/ \E i \in 1..ChainLen, res \in SelResults : SelWake(i, res)
    \/ SelPoll
    \/ \E i \in 1..ChainLen : SelLateWake(i)

CanBodyNext ==
    \/ \E frame \in GwFrames : GwRecv(frame)
    \/ \E st \in AudioInputs : BusPhone(st)
    \/ \E st \in AudioInputs : BusAudio(st)
    \/ GwRadioMux
    \/ GwSend

DisplayChunkNext ==
    \/ \E r \in DisplayClosures(dt.state) : DtModify(r)
    \/ \E wraps \in BOOLEAN : GwDisplay(wraps)
    \/ GwSend

----------------------------------------------------------------------------
(* get_sys_state applied to any System record.                              *)

Modes ==
    {set_service_mode(SystemNew).enabled,
     set_update_mode(SystemNew).enabled,
     set_normal_mode(SystemNew).enabled}

Systems ==
    [enabled : Modes, always_on : {ALWAYS_ON},
     started : SUBSET Services, sys_enabled : BOOLEAN]

PureInit ==
    /\ pureIn = SystemNew
    /\ pureOut = "none"

PureInputs ==
    /\ pureIn \in Systems
    /\ pureOut = "none"

GetSysState ==
    /\ pureOut = "none"
    /\ pureOut' = get_sys_state([sys |-> pureIn, sig |-> sig])
    /\ UNCHANGED pureIn
    /\ UNCHANGED <<lifeVars, ringVars, busVars, abVars, gwVars, netVars, extVars>>

----------------------------------------------------------------------------

PhoneStates == {"Streaming", "Connected"}

(* One poll of a woken task.                                                *)
TaskStep ==
    \/ \E svc \in Spawned : WaitEnabledPending(svc)
    \/ \E svc \in Spawned : WaitDisabledPending(svc)
    \/ \E svc \in Spawned, ok \in BOOLEAN : ServiceDisabled(svc, ok)
    \/ CommandsStart
    \/ AudioMuxStart
    \/ \E ok \in BOOLEAN : MicrophoneStart(ok)
    \/ \E ok \in BOOLEAN : SpeakersStart(ok)
    \/ \E ok \in BOOLEAN : CanStart(ok)
    \/ CanSend

(* What reaches the tasks from outside: mode changes, vehicle-bus frames    *)
(* and peripheral failures.                                                 *)
Environment ==
    \/ SysSetServiceMode
    \/ SysSetUpdateMode
    \/ SysSetNormalMode
    \/ MicrophoneReadError
    \/ \E io_ok \in BOOLEAN, ok \in BOOLEAN : SpeakersWriting(io_ok, ok)
    \/ \E payload \in BodyComputerRequests : CanRecv(payload)
    \/ \E ok \in BOOLEAN : CanError(ok)

(* The phone's audio state changing, and AudioMux following it.             *)
AudioProfile ==
    \/ \E state \in PhoneStates : PhoneAudio(state)
    \/ AudioMuxPhone

Init ==
    /\ LifeInit /\ RingInit /\ PureInit /\ BusInit /\ BuffersInit
    /\ GwInit /\ NetInit /\ ExtInit

(* The service lifecycle with the audio profile left at its initial value.  *)
Next == TaskStep \/ Environment

Spec == Init /\ [][Next]_vars

(* The same with the phone changing the audio profile.                      *)
AudioNext == TaskStep \/ Environment \/ AudioProfile

AudioSpec == Init /\ [][AudioNext]_vars

(* The polls of one task, and the executor's guarantee: a task that has    *)
(* been woken is polled.  Nothing obliges the environment to act.           *)
TaskPoll(svc) ==
    \/ WaitEnabledPending(svc)
    \/ WaitDisabledPending(svc)
    \/ \E ok \in BOOLEAN : ServiceDisabled(svc, ok)
    \/ svc = "Commands" /\ CommandsStart
    \/ svc = "AudioMux" /\ AudioMuxStart
    \/ svc = "Microphone" /\ \E ok \in BOOLEAN : MicrophoneStart(ok)
    \/ svc = "Speakers" /\ \E ok \in BOOLEAN : SpeakersStart(ok)
    \/ svc = "Can" /\ ((\E ok \in BOOLEAN : CanStart(ok)) \/ CanSend)

Fairness == \A svc \in Spawned : WF_vars(TaskPoll(svc))

(* The tasks under a fair executor, with normal mode set from outside and   *)
(* the vehicle-bus frames arriving.                                         *)
FairNext ==
    \/ TaskStep
    \/ SysSetNormalMode
    \/ \E payload \in BodyComputerRequests : CanRecv(payload)

FairSpec == Init /\ [][FairNext]_vars /\ Fairness

(* The ring buffer on its own.                                              *)
RingSpec == Init /\ [][RingNext]_vars

BroadcastSpec == Init /\ [][BroadcastNext]_vars

DisplaySpec == Init /\ [][DisplayNext]_vars

BuffersSpec == Init /\ [][BuffersNext]_vars

(* The gates of pop_incoming and pop_outgoing on rings of WatermarkCap      *)
(* bytes, so that both watermarks are above zero: the rings start with any  *)
(* fill the pushes can leave, under either profile, and are popped.         *)
WatermarkCap == 12

Filled(n, fill, p) ==
    push(RingBufOn(n), [i \in 1..fill |-> ProfileByte(p)]).rb

WatermarkInit ==
    /\ LifeInit /\ RingInit /\ PureInit /\ BusInit /\ GwInit /\ NetInit /\ ExtInit
    /\ \E fill_in \in 0..WatermarkCap, fill_out \in 0..WatermarkCap, p \in BOOLEAN :
          ab = [ringbuf_incoming |-> Filled(WatermarkCap, fill_in, p),
                ringbuf_outgoing |-> Filled(WatermarkCap, fill_out, p),
                a2dp |-> p]
    /\ ab_hist = [mismatch |-> FALSE, ret |-> 0, out |-> <<>>,
                  incoming_notif |-> FALSE, outgoing_notif |-> FALSE]

WatermarkNext ==
    \/ \E n \in 0..MaxAudioOut : \E tag \in BOOLEAN : PopIncoming(n, tag)
    \/ \E n \in 0..MaxAudioOut : \E tag \in BOOLEAN : PopOutgoing(n, tag)

WatermarkSpec == WatermarkInit /\ [][WatermarkNext]_vars

CanBodySpec == Init /\ [][CanBodyNext]_vars

DisplayChunkSpec == Init /\ [][DisplayChunkNext]_vars

ModemSpec == Init /\ [][ModemNext]_vars

SelectSpec == Init /\ [][SelectNext]_vars

SpeakerSpec == Init /\ [][SpeakerNext]_vars

CommandsSpec == Init /\ [][CommandsNext]_vars

DebounceSpec == Init /\ [][DebounceNext]_vars

(* The tasks that take part in a call: Commands, which sets the normal      *)
(* mode, AudioMux and Speakers, with the mode going between normal and      *)
(* service, the phone's audio state changing and the speakers' writer being *)
(* woken (a write completes, or incoming audio crosses the watermark and    *)
(* raises AUDIO_BUFFERS_INCOMING_NOTIF).  Microphone and Can stay where     *)
(* they were spawned.                                                       *)
CallTasks == {"Commands", "AudioMux", "Speakers"}

WriterWoken == \E io_ok \in BOOLEAN, ok \in BOOLEAN : SpeakersWriting(io_ok, ok)

CallNext ==
    \/ \E svc \in CallTasks : WaitEnabledPending(svc)
    \/ \E svc \in CallTasks : WaitDisabledPending(svc)
    \/ \E svc \in CallTasks, ok \in BOOLEAN : ServiceDisabled(svc, ok)
    \/ CommandsStart
    \/ AudioMuxStart
    \/ \E ok \in BOOLEAN : SpeakersStart(ok)
    \/ SysSetNormalMode
    \/ SysSetServiceMode
    \/ AudioProfile
    \/ WriterWoken

(* The polls of one task, the phone signal's wake of AudioMux included.     *)
CallPoll(svc) == TaskPoll(svc) \/ (svc = "AudioMux" /\ AudioMuxPhone)

(* The executor polls a woken task.  Nothing obliges a write to complete    *)
(* or audio to arrive.                                                      *)
CallFairness == \A svc \in CallTasks : WF_vars(CallPoll(svc))

CallSpec == Init /\ [][CallNext]_vars /\ CallFairness

CodecSpec == CodecInit /\ [][CodecNext]_vars

(* get_sys_state on its own.                                                *)
PureNext == GetSysState

PureSpecInit ==
    /\ LifeInit /\ RingInit /\ PureInputs /\ BusInit /\ BuffersInit
    /\ GwInit /\ NetInit /\ ExtInit

PureSpec == PureSpecInit /\ [][PureNext]_vars

----------------------------------------------------------------------------
(* C1: a service whose guard has been dropped (or that holds none) is not   *)
(* a member of System.started.                                              *)
C1_DroppedGuardClearsStarted ==
    \A s \in Spawned : ~guard[s] => s \notin sys.started

(* C2: under the fair executor, if sys_enabled stays true and from some     *)
(* point on service s stays enabled with its task in its body, then from    *)
(* some point on s is a member of System.started for good.                  *)
C2_EnabledServiceConverges ==
    \A s \in Spawned :
        ([]sys.sys_enabled
            /\ <>[](pc[s] = "running"
                     /\ (s \in sys.enabled \/ s \in sys.always_on)))
        => <>[](s \in sys.started)

C5_ModeSetters ==
    [][LET always == {"Can", "CockpitDisplay", "RadioDisplay", "Commands"}
           rest_kept == /\ sys'.started = sys.started
                        /\ sys'.always_on = sys.always_on
                        /\ sys'.sys_enabled = sys.sys_enabled
       IN  /\ sys.always_on = always
           /\ sys'.always_on = always
           /\ SysSetServiceMode => (sys'.enabled = {} /\ rest_kept)
           /\ SysSetUpdateMode => (sys'.enabled = {"Wifi"} \ always /\ rest_kept)
           /\ SysSetNormalMode =>
                 /\ sys'.enabled =
                       {"Bt", "AudioMux", "Microphone", "Speakers", "Can",
                        "RadioDisplay", "CockpitDisplay", "Commands", "Wifi"}
                       \ ({"Wifi"} \cup always)
                 /\ rest_kept
           /\ CommandsStart =>
                 sys'.enabled = {"Bt", "AudioMux", "Microphone", "Speakers"}]_vars

C5_Witness ==
    /\ sys.enabled = {"Wifi"}
    /\ "Microphone" \in sys.started
    /\ guard["Microphone"]
    /\ Signaled(sig, "Microphone")

(* C6: wait_enabled completes only on a signalled slot with the predicate   *)
(* `sys_enabled ? s in enabled or always_on : s in always_on` true of the   *)
(* current record, wait_disabled only with it false; a wake that finds the  *)
(* predicate otherwise leaves the task waiting where it was.                *)
C6_WaitGates ==
    [][\A s \in Spawned :
          LET predicate == IF sys.sys_enabled
                           THEN s \in sys.enabled \cup sys.always_on
                           ELSE s \in sys.always_on
          IN  /\ (pc[s] = "wait_enabled" /\ pc'[s] # "wait_enabled")
                    => (Signaled(sig, s) /\ predicate)
              /\ ((pc[s] = "running" /\ pc'[s] = "wait_enabled")
                    \/ \E ok \in BOOLEAN : ServiceDisabled(s, ok))
                    => (Signaled(sig, s) /\ ~predicate)
              /\ WaitEnabledPending(s) => (~predicate /\ pc'[s] = "wait_enabled")
              /\ WaitDisabledPending(s) => (predicate /\ pc'[s] = "running")]_vars

C6_Witness ==
    /\ pc["Microphone"] = "wait_enabled"
    /\ "Microphone" \in sys.started
    /\ pc["AudioMux"] = "running"
    /\ ~sys.sys_enabled
    /\ ~Signaled(sig, "Microphone")

(* C7: after boot the system reaches normal mode with sys_enabled true.     *)
C7_BootReachesNormalMode ==
    <>(/\ sys.enabled = {"Bt", "AudioMux", "Microphone", "Speakers"}
       /\ sys.sys_enabled)

(* C8: if from some point on the system stays woken in normal mode with     *)
(* every task in its body, the system state becomes Started.                *)
C8_WakeReachesStarted ==
    (<>[](/\ sys.sys_enabled
          /\ sys.enabled = {"Bt", "AudioMux", "Microphone", "Speakers"}
          /\ \A s \in Spawned : pc[s] = "running"))
    => <>(get_state(sys) = "Started")

(* C9: if from some point on sys_enabled stays false, then from some point  *)
(* on no service outside always_on is a member of System.started.           *)
C9_ShutdownClearsStarted ==
    (<>[](~sys.sys_enabled)) => <>[](sys.started \subseteq sys.always_on)

(* C4: get_sys_state is a function of the record alone and leaves it as it  *)
(* was: the result is Started iff sys_enabled and started = enabled \cup    *)
(* always_on, Starting iff sys_enabled and they differ, Stopped iff not     *)
(* sys_enabled and started = always_on, Stopping iff not sys_enabled and    *)
(* they differ.                                                             *)
C4_GetSysState ==
    pureOut # "none" =>
        LET all_up == pureIn.started = pureIn.enabled \cup pureIn.always_on
            all_down == pureIn.started = pureIn.always_on
        IN  /\ pureOut \in {"Started", "Starting", "Stopped", "Stopping"}
            /\ pureOut = "Started" <=> (pureIn.sys_enabled /\ all_up)
            /\ pureOut = "Starting" <=> (pureIn.sys_enabled /\ ~all_up)
            /\ pureOut = "Stopped" <=> (~pureIn.sys_enabled /\ all_down)
            /\ pureOut = "Stopping" <=> (~pureIn.sys_enabled /\ ~all_down)
            /\ sys = SystemNew
            /\ sig = SignalNew

C4_Witness ==
    /\ pureOut = "Started"
    /\ pureIn.enabled # {}
    /\ pureIn.started # pureIn.always_on

(* C10: after every push, push_byte and pop, len() is the bytes pushed      *)
(* less the bytes popped less the bytes dropped by overflow, it lies in     *)
(* 0..N, and push and push_byte return it.                                  *)
C10_LenAccounting ==
    /\ len(rb) = rb_hist.pushed - rb_hist.popped - rb_hist.dropped
    /\ 0 <= len(rb)
    /\ len(rb) <= RingCap
    /\ rb_hist.op \in {"push", "push_byte"} => rb_hist.ret = len(rb)

C10_Witness ==
    /\ rb_hist.dropped > 0
    /\ rb_hist.popped > 0
    /\ rb_hist.op = "push"
    /\ rb.start > rb.end
    /\ len(rb) < RingCap

(* C11: a push of more bytes than were free leaves the ring full, holding  *)
(* the newest RingCap bytes of what was pushed and not popped; a pop of any *)
(* size m then returns the first min(m, RingCap) of them.                   *)
C11_OverflowKeepsNewest ==
    (rb_hist.op = "push" /\ rb_hist.over) =>
        /\ is_full(rb)
        /\ Len(rb_hist.ideal) = RingCap
        /\ \A m \in 0..MaxOut :
              /\ pop(rb, m).out = Oldest(rb_hist.ideal, m)
              /\ pop(rb, m).ret = min(m, RingCap)

C11_Witness ==
    /\ rb_hist.op = "push"
    /\ rb_hist.over
    /\ rb_hist.arg > RingCap
    /\ rb_hist.popped > 0
    /\ rb.start # 0

(* C12: a pop returns the oldest min(out.len(), len()) retained bytes in    *)
(* the order they were pushed; after every call is_empty() iff len() = 0,   *)
(* is_full() iff len() = capacity, and start and end are below capacity.    *)
C12_FifoAndFlags ==
    [][/\ \A n \in 0..MaxOut :
             Pop(n) => /\ rb_hist'.out = Oldest(rb_hist.ideal, n)
                       /\ rb_hist'.ret = min(n, len(rb))
       /\ is_empty(rb') <=> len(rb') = 0
       /\ is_full(rb') <=> len(rb') = RingCap
       /\ rb'.start \in 0..(RingCap - 1)
       /\ rb'.end \in 0..(RingCap - 1)
       /\ Len(rb_hist'.ideal) = len(rb')]_vars

C12_Witness ==
    /\ rb_hist.op = "pop"
    /\ rb_hist.dropped > 0
    /\ Len(rb_hist.out) = 2
    /\ rb_hist.out[1] # rb_hist.out[2]
    /\ rb.start < rb.end

(* C13 as stated: pop returns 0 iff the ring is empty, whatever the output  *)
(* buffer.                                                                  *)
C13_PopZeroIffEmpty ==
    [][\A n \in 0..MaxOut : Pop(n) => (rb_hist'.ret = 0 <=> is_empty(rb))]_vars

(* C13 amended: pop returns 0 iff the ring is empty or the output buffer    *)
(* has length 0.                                                            *)
C13_PopZeroIffEmptyOrNoRoom ==
    [][\A n \in 0..MaxOut :
          Pop(n) => (rb_hist'.ret = 0 <=> (is_empty(rb) \/ n = 0))]_vars

C13_Witness ==
    /\ rb_hist.op = "pop"
    /\ rb_hist.arg = 0
    /\ rb_hist.ret = 0
    /\ ~is_empty(rb)

(* C14: two sends with no recv between them on a receiver leave it one     *)
(* value, the second: its next recv returns the value sent last, and empties *)
(* the slot, which stays empty (no recv completes) until the next send.     *)
C14_Coalescing ==
    [][/\ \A svc \in Services :
             BsRecv(svc) => /\ bs_hist'.ret = bs_hist.last
                            /\ ~RecvReady(bs', svc)
       /\ \A svc \in Services :
             (Index(svc) \in SlotIndexes /\ bs_hist'.unread[Index(svc)] = 0)
                 => ~RecvReady(bs', svc)]_vars

C14_Witness ==
    /\ bs_hist.op = "recv"
    /\ bs_hist.merged
    /\ bs_hist.prev # bs_hist.last
    /\ bs_hist.ret = bs_hist.last
    /\ ~RecvReady(bs, bs_hist.svc)

(* C15: send(v) leaves v in every slot of the array, whatever the slot held; *)
(* a recv by one service empties the slot of that service and leaves every  *)
(* other slot as it was.                                                    *)
C15_FanOut ==
    [][/\ \A v \in Values :
             BsSend(v) => \A i \in SlotIndexes : bs'[i] = v
       /\ \A svc \in Services :
             BsRecv(svc) => /\ bs'[Index(svc)] = "none"
                            /\ \A i \in SlotIndexes \ {Index(svc)} :
                                  bs'[i] = bs[i]]_vars

C15_Witness ==
    /\ bs_hist.op = "recv"
    /\ \E i \in SlotIndexes : bs[i] = bs_hist.last /\ bs_hist.unread[i] = 2
    /\ \E i \in SlotIndexes : bs[i] = "none"
    /\ \E i \in SlotIndexes : bs[i] # "none" /\ bs_hist.unread[i] = 1

(* C16: modify(f) stores the record f left and sets every slot of the      *)
(* signal iff f returned true; when f returned false every slot is as it    *)
(* was.  sys_start and sys_stop, reached through the Wakeup and ShutDown    *)
(* requests, wake every receiver exactly when they change sys_enabled.      *)
C16_ModifyWakesIffChanged ==
    [][/\ \A d \in BOOLEAN : \A e \in BOOLEAN :
             LET r == [sys |-> [sys EXCEPT !.sys_enabled = e], dirty |-> d]
             IN  /\ Modify(World, r).sys = r.sys
                 /\ Modify(World, r).sig =
                        IF d THEN [i \in SlotIndexes |-> TRUE] ELSE sig
       /\ CanRecv("WakeupRequest") =>
             IF ~sys.sys_enabled
             THEN /\ sys' = [sys EXCEPT !.sys_enabled = TRUE]
                  /\ \A i \in SlotIndexes : sig'[i]
             ELSE /\ sys' = sys
                  /\ sig' = BodyPoll("Can").sig
       /\ CanRecv("ShutDownRequest") =>
             IF sys.sys_enabled
             THEN /\ sys' = [sys EXCEPT !.sys_enabled = FALSE]
                  /\ \A i \in SlotIndexes : sig'[i]
             ELSE /\ sys' = sys
                  /\ sig' = BodyPoll("Can").sig]_vars

C16_Witness ==
    /\ pc["Can"] = "running"
    /\ ~sys.sys_enabled
    /\ \A i \in SlotIndexes : sig[i]
    /\ sys.started # {}

C18_NoCrossProfileBytes ==
    [][\A n \in 0..MaxAudioOut : \A tag \in BOOLEAN :
          (PopIncoming(n, tag) \/ PopOutgoing(n, tag)) =>
              /\ \A i \in 1..Len(ab_hist'.out) :
                    ab_hist'.out[i] = ProfileByte(tag)
              /\ Len(ab_hist'.out) = ab_hist'.ret]_vars

C18_Witness ==
    /\ ab_hist.out = <<"voice", "voice">>
    /\ ab_hist.ret = 2
    /\ ~ab.a2dp
    /\ \E i \in 0..(AudioCap - 1) : ab.ringbuf_incoming.buf[i] = "music"
    /\ \E i \in 0..(AudioCap - 1) : ab.ringbuf_outgoing.buf[i] = "music"

(* C19: push_incoming, pop_incoming, push_outgoing and pop_outgoing called *)
(* with a tag other than the current profile return 0, leave both rings and *)
(* the profile as they were, do not signal incoming-ready and do not invoke *)
(* outgoing_notif.                                                          *)
C19_WrongTagIsNoOp ==
    [][\A tag \in BOOLEAN :
          tag # ab.a2dp =>
              /\ \A n \in 0..MaxAudioData :
                    (PushIncoming(n, tag) \/ PushOutgoing(n, tag)) =>
                        /\ ab' = ab
                        /\ ab_hist'.ret = 0
                        /\ ~ab_hist'.incoming_notif
                        /\ ~ab_hist'.outgoing_notif
              /\ \A n \in 0..MaxAudioOut :
                    (PopIncoming(n, tag) \/ PopOutgoing(n, tag)) =>
                        /\ ab' = ab
                        /\ ab_hist'.ret = 0
                        /\ ab_hist'.out = <<>>
                        /\ ~ab_hist'.incoming_notif
                        /\ ~ab_hist'.outgoing_notif]_vars

C19_Witness ==
    /\ ab_hist.mismatch
    /\ ab_hist.ret = 0
    /\ ~ab.a2dp
    /\ is_outgoing_above_watermark(ab, ab.a2dp)
    /\ is_incoming_above_watermark(ab, ab.a2dp)
    /\ is_full(ab.ringbuf_incoming)

(* C20: set_a2dp(p) with p other than the current profile makes p the      *)
(* profile and leaves both rings empty; with p the current profile it       *)
(* leaves the profile and both rings as they were.                          *)
C20_SetProfile ==
    [][\A p \in BOOLEAN :
          SetA2dp(p) =>
              IF p # ab.a2dp
              THEN /\ ab'.a2dp = p
                   /\ is_empty(ab'.ringbuf_incoming)
                   /\ is_empty(ab'.ringbuf_outgoing)
                   /\ len(ab'.ringbuf_incoming) = 0
                   /\ len(ab'.ringbuf_outgoing) = 0
                   /\ \A n \in 0..MaxAudioOut :
                         /\ pop(ab'.ringbuf_incoming, n).ret = 0
                         /\ pop(ab'.ringbuf_outgoing, n).ret = 0
              ELSE ab' = ab]_vars

C20_Witness ==
    /\ ab.a2dp
    /\ ~ab_hist.mismatch
    /\ ab_hist.out = <<>>
    /\ is_empty(ab.ringbuf_incoming)
    /\ is_empty(ab.ringbuf_outgoing)
    /\ \E i \in 0..(AudioCap - 1) : ab.ringbuf_incoming.buf[i] = "voice"
    /\ \A i \in 0..(AudioCap - 1) : ab.ringbuf_outgoing.buf[i] = "voice"

C23_CodecRoundTrip ==
    pureOut.kind = "message" =>
        /\ pureOut.message = pureIn.message
        /\ pureOut.frame.identifier =
               Topic_into(pureIn.message.topic)[1] * 65536
                   + u16_from_Publisher(pureIn.message.publisher)

(* C24: the text decoded from the payload a text of up to 8 glyphs was      *)
(* encoded into is the text; bytes 0 and 1 of the payload are zero.         *)
C24_TextRoundTrip ==
    pureOut.kind = "text" =>
        /\ pureOut.text = pureIn.text
        /\ pureOut.payload[1] = 0
        /\ pureOut.payload[2] = 0

(* C22: processing a Proxi frame completes without failure; the first      *)
(* Response's six bytes are cached, and a Request received once a Response  *)
(* is cached hands the sender a frame of the Proxi topic, published by Bt,  *)
(* whose payload is the cached bytes.                                       *)
C22_ProxiEcho ==
    [][\A frame \in GwFrames :
          LET payload == Message_from_Frame(frame).topic.v IN
          (GwRecv(frame) /\ get_topic(frame.identifier) = TOPIC_PROXI) =>
              /\ ~gw'.panicked
              /\ (payload.t = "Response" /\ gw.pending_proxi_value = None)
                     => gw'.pending_proxi_value = Some(payload.bytes)
              /\ (payload.t = "Request" /\ gw.pending_proxi_value # None)
                     => /\ gw'.send_proxi # None
                        /\ Message_from_Frame(gw'.send_proxi[1]) =
                               [publisher |-> [t |-> "Bt"],
                                topic |-> [t |-> "Proxi",
                                           v |-> [t |-> "Response",
                                                  bytes |-> gw.pending_proxi_value[1]]]]
      ]_vars

(* C25: while the media audio is Streaming and the phone audio is not,      *)
(* a radio status taken by process_radio_mux sends Resume exactly when the  *)
(* status went from not-BtActive to BtActive, Pause exactly when it went    *)
(* from BtActive to not-BtActive, and nothing when it repeats.              *)
C25_RadioMuxEdges ==
    [][(GwRadioMux /\ gw.bus_radio # "none"
                   /\ is_active(gw.saudio) /\ ~is_active(gw.sphone)) =>
          gw_hist'.cmd =
              IF ~is_bt_active(gw.sradio) /\ is_bt_active(gw.bus_radio) THEN "Resume"
              ELSE IF is_bt_active(gw.sradio) /\ ~is_bt_active(gw.bus_radio) THEN "Pause"
              ELSE "none"
      ]_vars

(* C26: for a displayed text of 20 characters the frames handed to the      *)
(* sender after the version changed are three, with chunk indexes 0, 1, 2   *)
(* in this order, each for the radio and each with 2 (total chunks minus    *)
(* one) in the high nibble of byte 0.                                       *)
C26_DisplayChunks ==
    [][((\E wraps \in BOOLEAN : GwDisplay(wraps))
            /\ gw'.send_radio_display # gw.send_radio_display
            /\ Len(RenderedText(dt.state.text)) = 20) =>
          LET data == gw'.send_radio_display[1].data
              d == Display_from(data)
          IN  /\ gw_hist'.frames <= 3
              /\ d.chunk = gw_hist'.frames - 1
              /\ Shr(At(data, 0), 4) = 2
              /\ d.for_radio
      ]_vars

C29_StartedWhileInBody ==
    \A svc \in Spawned : pc[svc] = "running" => svc \in sys.started

(* C30: a run that ends because wait_disabled completed leaves the task     *)
(* without its driver and its borrow, waiting for wait_enabled (or out, on  *)
(* an error); no driver is created and started() is not called in the step. *)
C30_DisabledUntilEnabled ==
    [][(\E stop_ok \in BOOLEAN, ok \in BOOLEAN : WifiDisabled(stop_ok, ok)) =>
          /\ net'.pc.Wifi \in {"wait_enabled", "exited"}
          /\ "Wifi" \notin net'.modem
      ]_vars

(* C27: every phone audio state the audio mux takes sets the profile to     *)
(* voice iff the state is Streaming, else to music; a state left in the     *)
(* slot is taken while the mux runs; and, if the speakers' writer is woken  *)
(* whenever it can be, a running speaker task whose driver clock differs    *)
(* from the profile eventually rebuilds the driver with the profile's       *)
(* clock or leaves its body.                                                *)
C27_CallPreempts ==
    /\ [][/\ \A s \in PhoneStates :
                ((PhoneAudio(s) /\ phone' = "none") => (a2dp' = ~is_active(s)))
           /\ (AudioMuxPhone => (a2dp' = ~is_active(phone)))
           /\ ((AudioMuxStart /\ phone # "none") => (a2dp' = ~is_active(phone)))
         ]_vars
    /\ (phone # "none" /\ pc["AudioMux"] = "running")
           ~> (phone = "none" \/ pc["AudioMux"] # "running")
    /\ SF_vars(WriterWoken) =>
           ((pc["Speakers"] = "running" /\ a2dp_conf # a2dp)
               ~> (a2dp_conf = a2dp \/ pc["Speakers"] # "running"))

(* The speaker task runs with the driver built for voice after a call took  *)
(* the profile from music.                                                  *)
C27_Witness ==
    /\ pc["Speakers"] = "running"
    /\ pc["AudioMux"] = "running"
    /\ ~a2dp
    /\ ~a2dp_conf

(* C27 as stated: with the executor fair and nothing said of the writer's   *)
(* wake, the driver is eventually rebuilt with the profile's clock.         *)
C27_RebuildsUnderFairPolls ==
    (pc["Speakers"] = "running" /\ a2dp_conf # a2dp)
        ~> (a2dp_conf = a2dp \/ pc["Speakers"] # "running")

(* C31: a failure of a sub-task of the vehicle-bus body (a receive error)   *)
(* leaves the task running: it is back in wait_enabled, not terminated.     *)
C31_RecvErrorRestarts ==
    [][(\E ok \in BOOLEAN : CanError(ok)) => pc'["Can"] = "wait_enabled"]_vars

(* C32: a poll of the chain completes it exactly when some chained future   *)
(* is ready, with the result of the first ready future in chain order (the  *)
(* worker's error when only a worker is ready, wait_disabled's Ok when it   *)
(* is); every future is then dropped, and no future is polled after the     *)
(* chain has completed.                                                     *)
C32_FirstReadyWins ==
    [][/\ SelPoll =>
            LET R == {i \in 1..ChainLen : sel.futs[i].ready}
            IN  /\ sel'.done <=> R # {}
                /\ R # {} =>
                      /\ \E i \in R : /\ \A j \in R : i <= j
                                       /\ sel'.out = sel.futs[i].res
                      /\ \A i \in 1..ChainLen : sel'.futs[i].dropped
                /\ R = {} =>
                      \A i \in 1..ChainLen :
                          sel'.futs[i].polls = sel.futs[i].polls + 1
       /\ sel.done =>
            /\ sel'.done /\ sel'.out = sel.out
            /\ \A i \in 1..ChainLen : sel'.futs[i].polls = sel.futs[i].polls
      ]_vars

(* A worker finished first with its error; wait_disabled's event came       *)
(* after the chain had been dropped.                                        *)
C32_Witness ==
    /\ sel.done
    /\ sel.out = "Err"
    /\ ~sel.futs[1].ready
    /\ sel.op = "late_wake"

(* C33: a turn of process_radio_mux that takes a phone audio state puts the  *)
(* Bt::Phone frame in the radio-switch slot when the state is Streaming and *)
(* the last radio state taken is not BtActive, and leaves the slot as it    *)
(* was when the radio is BtActive or the phone state is not Streaming.      *)
C33_PhoneSwitch ==
    [][(GwRadioMux /\ gw.bus_radio = "none" /\ gw.bus_phone # "none") =>
          /\ gw'.sphone = gw.bus_phone
          /\ (gw.bus_phone = "Streaming" /\ gw.sradio # "BtActive") =>
                /\ gw'.send_radio_switch # None
                /\ Message_from_Frame(gw'.send_radio_switch[1]) =
                       [publisher |-> [t |-> "Bt"],
                        topic |-> [t |-> "Bt", v |-> [t |-> "Phone"]]]
          /\ (gw.bus_phone # "Streaming" \/ gw.sradio = "BtActive") =>
                gw'.send_radio_switch = gw.send_radio_switch
      ]_vars

(* The phone started streaming while the head unit was on the muted         *)
(* Bluetooth source, and the frame is in the slot.                          *)
C33_Witness ==
    /\ gw_hist.op = "radio_mux"
    /\ gw.sphone = "Streaming"
    /\ gw.sradio = "BtMuted"
    /\ gw.send_radio_switch # None

(* C34: at the tick at which the countdown of a button expires, the         *)
(* ticks since the flip have consumed the 100 ms, the button is in the      *)
(* debounced set exactly when it is in the latest raw set, every button     *)
(* that does not expire at this tick keeps its debounced membership, and    *)
(* the debounced set is published.                                          *)
C34_DebounceCommit ==
    [][(DebTick /\ DebExpiring(deb) # {}) =>
          /\ \A b \in DebExpiring(deb) :
                 /\ (deb.ticks[b] * TICK) >= DebounceTime
                 /\ (b \in deb'.debounced_state) <=> (b \in deb.latest_state)
          /\ \A c \in DebButtons \ DebExpiring(deb) :
                 (c \in deb'.debounced_state) <=> (c \in deb.debounced_state)
          /\ deb'.sent = Some(deb'.debounced_state)
      ]_vars

(* C35: a button event handled in run mode with the phone menu closed       *)
(* sends Answer when the call is Ringing and the edge set has Menu, Reject  *)
(* when the call is Ringing and the edge set has Down or Windows and not    *)
(* Menu, Hangup when the call is Dialing, DialingAlerting or CallActive     *)
(* and the edge set has Menu or Windows, and no media command while the     *)
(* call state is not Idle.                                                  *)
C35_CallRows ==
    [][\A pressed \in CmButtonSets :
          (/\ CmButtons(pressed)
           /\ ~cm'.conf
           /\ ~cm.menu \/ is_active(cm.status.phone)) =>
             LET edge == cm.sbuttons \cap pressed
                 call == cm.status.call
             IN  /\ (call = "Ringing" /\ "Menu" \in edge) =>
                        cm'.sent = Some("Answer")
                 /\ (call = "Ringing" /\ "Menu" \notin edge
                        /\ ("Down" \in edge \/ "Windows" \in edge)) =>
                        cm'.sent = Some("Reject")
                 /\ (call \in {"Dialing", "DialingAlerting", "CallActive"}
                        /\ ("Menu" \in edge \/ "Windows" \in edge)) =>
                        cm'.sent = Some("Hangup")
                 /\ call # "Idle" =>
                        \A c \in MediaCommands : cm'.sent # Some(c)
      ]_vars

(* C36: a button event that is not the shortcut, received while the phone   *)
(* audio is not active, leaves the mode (run or conf) as it was.            *)
C36_ModeKept ==
    [][\A pressed \in CmButtonSets :
          (/\ CmButtons(pressed)
           /\ ~is_active(cm.status.phone)
           /\ ~CutoffShortcut(cm, pressed)) =>
             cm'.conf = cm.conf
      ]_vars

(* C37: a step in which a task takes or drops its Started guard changes,    *)
(* in the started set, the membership of no other service, and leaves       *)
(* enabled, always_on and sys_enabled as they were (the first poll of       *)
(* Commands also sets the normal mode, and is held to the first part only). *)
C37_StartedIsolation ==
    [][\A svc \in Spawned :
          guard'[svc] # guard[svc] =>
             /\ \A o \in Services \ {svc} :
                    (o \in sys'.started) <=> (o \in sys.started)
             /\ ~CommandsStart =>
                    /\ sys'.enabled = sys.enabled
                    /\ sys'.always_on = sys.always_on
                    /\ sys'.sys_enabled = sys.sys_enabled
      ]_vars

(* C38: pop_incoming hands out bytes only when its tag is the profile and   *)
(* the incoming fill is at least the watermark (capacity/3*2 in music,      *)
(* capacity/12*2 in voice); otherwise it returns 0 and leaves the buffers   *)
(* as they were.  pop_outgoing hands out bytes only when the profile and    *)
(* the tag are voice and the outgoing fill is at least capacity/3*2, and    *)
(* otherwise returns 0 and leaves the buffers as they were.                 *)
C38_WatermarkGate ==
    [][\A tag \in BOOLEAN : \A n \in 0..MaxAudioOut :
          LET in_mark == IF tag THEN (WatermarkCap \div 3) * 2
                                ELSE (WatermarkCap \div 12) * 2
              in_ok == tag = ab.a2dp /\ len(ab.ringbuf_incoming) >= in_mark
              out_ok == /\ ~ab.a2dp /\ ~tag
                        /\ len(ab.ringbuf_outgoing) >= (WatermarkCap \div 3) * 2
          IN  /\ PopIncoming(n, tag) =>
                    IF in_ok
                    THEN /\ ab_hist'.ret = min(n, len(ab.ringbuf_incoming))
                         /\ len(ab'.ringbuf_incoming) =
                                len(ab.ringbuf_incoming) - ab_hist'.ret
                    ELSE ab_hist'.ret = 0 /\ ab_hist'.out = <<>> /\ ab' = ab
              /\ PopOutgoing(n, tag) =>
                    IF out_ok
                    THEN /\ ab_hist'.ret = min(n, len(ab.ringbuf_outgoing))
                         /\ len(ab'.ringbuf_outgoing) =
                                len(ab.ringbuf_outgoing) - ab_hist'.ret
                    ELSE ab_hist'.ret = 0 /\ ab_hist'.out = <<>> /\ ab' = ab
      ]_vars

(* A pop with the right tag took the voice ring below its watermark, and    *)
(* the byte left stays in the ring: the last call returned bytes and the    *)
(* ring is neither empty nor at the watermark.                              *)
C38_Witness ==
    /\ ~ab.a2dp
    /\ ~ab_hist.mismatch
    /\ ab_hist.ret > 0
    /\ Len(ab_hist.out) = ab_hist.ret
    /\ len(ab.ringbuf_incoming) = 1
    /\ ~is_incoming_above_watermark(ab, FALSE)

(* C39: every byte the speaker holds for writing or has written was pushed  *)
(* under the profile its driver is configured for; bytes are popped only    *)
(* in a step that finds the configured profile equal to the current one;    *)
(* and from the step that sees a flip until the driver is rebuilt the       *)
(* speaker holds no driver and no bytes, and writes nothing.                *)
C39_SpeakerProfile ==
    /\ [](spk.at = "write" =>
            /\ spk.driver # None
            /\ \A i \in 1..Len(spk.buf) : spk.buf[i] = ProfileByte(spk.driver[1]))
    /\ [][/\ (\E io_ok \in BOOLEAN : SpkWrite(io_ok)) =>
                \A i \in 1..Len(spk'.written) :
                    spk'.written[i] = ProfileByte(spk.driver[1])
          /\ (\E n \in 1..MaxAudioOut : \E ok \in BOOLEAN : SpkLock(n, ok)) =>
                /\ spk'.buf # <<>> =>
                      (spk.a2dp_conf = ab.a2dp /\ spk.driver = Some(ab.a2dp))
                /\ spk.a2dp_conf # ab.a2dp =>
                      (ab' = ab /\ spk'.buf = <<>> /\ spk'.driver = None
                       /\ spk'.at \in {"rebuild", "exited"})
          /\ spk.at = "rebuild" =>
                (spk'.written = spk.written /\ spk'.buf = <<>>
                 /\ spk'.at \in {"rebuild", "lock", "exited"})
         ]_vars

(* The speaker saw a flip from music to voice, rebuilt its driver for       *)
(* voice and wrote voice bytes to it.                                       *)
C39_Witness ==
    /\ spk.op = "write"
    /\ spk.driver = Some(FALSE)
    /\ spk.written # <<>>
    /\ \A i \in 1..Len(spk.written) : spk.written[i] = "voice"

====
